---- MODULE Spec2Model ----
(***************************************************************************)
(* Model of the passive network-visibility engine of the repository.       *)
(*                                                                         *)
(* Part 1: CaptureState (src/network_monitor/server.py): the bounded       *)
(* packet buffer, the live counters, the capture filter and the sniffer    *)
(* life cycle, with the HTTP request threads (Flask runs threaded) and     *)
(* the sniffer threads as concurrent processes.  Every access to the      *)
(* fields happens inside "with self._lock" and no locked block waits for   *)
(* another thread, so each locked block is one atomic action; the steps a  *)
(* thread takes outside the lock (sniffer.stop(), building the row) are    *)
(* separate actions that interleave freely.                                *)
(*                                                                         *)
(* Strings are modelled as sequences of tokens: a token is either the      *)
(* blank SP or a whole address, so that str.strip() is a real conversion.  *)
(* Fields of PacketRow that no operation of CaptureState reads (ts,        *)
(* timestamp, summary, payload, is_plain_text) are left out of the rows.   *)
(*                                                                         *)
(* Part 2: the passive ARP/MITM indicator engine of                        *)
(* src/network_monitor/app.py: the IP -> MACs history, the event log, the  *)
(* stored gateway pair, the ARP monitor and the summary query.  app.py     *)
(* runs under eventlet (monkey_patch), so its request handlers, sniffer    *)
(* threads and background jobs are green threads: a handler runs without   *)
(* interruption from one blocking call (a subprocess, a sleep) to the      *)
(* next, and each such stretch is one atomic action.  What the operating   *)
(* system answers (neighbor table, default route, frames) is an input.     *)
(* Specifications SpecMitm and SpecGateway run part 2 alone.               *)
(*                                                                         *)
(* Part 3: the discovery job of src/network_monitor/app.py: the start      *)
(* request, the background sweep spawned with eventlet.spawn_n, the job    *)
(* record and the results.  Specification SpecDisc runs part 3 alone.      *)
(* Under each specification the variables of the other parts keep their    *)
(* initial values.                                                         *)
(***************************************************************************)
EXTENDS Integers, Sequences, FiniteSets, TLC

(***************************************************************************)
(* Bounds of the model                                                     *)
(***************************************************************************)
\* capacity of the ring buffer (the max_packets argument of the constructor)
MaxPackets == 2
\* number of frames delivered by the capture library in one behaviour
MaxFrames == 3
\* number of API calls issued in one behaviour
MaxCalls == 3
\* number of AsyncSniffer objects constructed in one behaviour
MaxSniffers == 2
\* number of mitm summary queries in one behaviour
MaxQueries == 3
\* number of AsyncSniffer objects _start_arp_monitor constructs in one
\* behaviour
MaxArpSniffers == 2
\* capacity of the event log (deque(maxlen=300) in the program), the number
\* of newest events a query looks at (25) and the number it embeds (10),
\* scaled down with their order kept: embedded < recent < capacity
ArpEventsMax == 3
RecentEvents == 2
EmbeddedEvents == 1
\* number of discovery jobs spawned in one behaviour
MaxJobs == 2
\* number of lease import requests in one behaviour
MaxImports == 2
\* number of capture-tool processes spawned in one behaviour
MaxCaptures == 2
\* number of commands and proxy requests in one behaviour
MaxProxyCalls == 2

(***************************************************************************)
(* Values                                                                  *)
(***************************************************************************)
SP == " "
IpA == <<"10.0.0.5">>
IpB == <<"8.8.8.8">>
IpC == <<"1.1.1.1">>
NoIp == << >>

\* the request threads of the threaded Flask server
Callers == {1, 2}

\* ip arguments of start() and set_filter() as the callers pass them
IpInputs == { NoIp, <<SP>> \o IpA \o <<SP>> }

\* iface arguments of start(); "None" is Python's None
IfaceInputs == { "None", "eth0" }

\* since_id and limit arguments of get_packets(); the /api/packets route
\* passes limit >= 1, a direct caller may pass 0 (no limit)
SinceInputs == {0, 1}
LimitInputs == {0, 1, 2}

\* frames the capture library delivers to the callback
Frames ==
  { [ip |-> TRUE,  src |-> IpA,  dst |-> IpB,  proto |-> 6,  len |-> 100],
    [ip |-> TRUE,  src |-> IpB,  dst |-> IpA,  proto |-> 17, len |-> 200],
    [ip |-> TRUE,  src |-> IpC,  dst |-> IpC,  proto |-> 1,  len |-> 50],
    [ip |-> FALSE, src |-> NoIp, dst |-> NoIp, proto |-> 0,  len |-> 60] }

NoFrame == [ip |-> FALSE, src |-> NoIp, dst |-> NoIp, proto |-> 0, len |-> 0]

SnifferIds == 1..MaxSniffers

VARIABLES
  sniffer,       \* CaptureState._sniffer: 0 is None, else a sniffer id
  running,       \* CaptureState._running
  filter_ip,     \* CaptureState._filter_ip
  iface,         \* CaptureState._iface
  next_id,       \* CaptureState._next_id
  packets,       \* CaptureState._packets, oldest row first
  stats,         \* CaptureState._stats
  snifferState,  \* per AsyncSniffer object: absent, created, live, stopped
  stopping,      \* per request thread: the handle stop() took, 0 if none
  cb,            \* per sniffer thread: position in _on_packet and its locals
  issued,        \* history: the ids given to rows, in the order given
  session,       \* history: the rows counted since the last fresh start,
                 \* each with the filter in force at its append
  freshIface,    \* history: the iface argument of the last fresh start
  nframes,       \* history: frames delivered so far
  ncalls         \* history: API calls issued so far

vars == <<sniffer, running, filter_ip, iface, next_id, packets, stats,
          snifferState, stopping, cb, issued, session, freshIface, nframes,
          ncalls>>

(***************************************************************************)
(* Part 2: values and state of the indicator engine                        *)
(***************************************************************************)
GwIp == <<"192.168.1.1">>
OtherIp == <<"192.168.1.254">>
NoMac == << >>

\* the keys the history map can get in the model
MitmIps == {GwIp, OtherIp}

\* the green threads serving /api/mitm/summary
Handlers == {1, 2}

ArpSnifferIds == 1..MaxArpSniffers

\* ARP frames as scapy hands them to the callback: arp is "ARP in pkt",
\* psrc and hwsrc are the source addresses as strings; ok is FALSE for a
\* frame whose fields cannot be read (reading them raises)
ArpFrames ==
  { [arp |-> TRUE,  psrc |-> GwIp, hwsrc |-> <<"AA">>,     ok |-> TRUE],
    [arp |-> TRUE,  psrc |-> GwIp, hwsrc |-> <<"aa", SP>>, ok |-> TRUE],
    [arp |-> TRUE,  psrc |-> <<SP>> \o GwIp, hwsrc |-> <<"bb">>,
     ok |-> TRUE],
    [arp |-> TRUE,  psrc |-> NoIp, hwsrc |-> <<"bb">>,     ok |-> TRUE],
    [arp |-> TRUE,  psrc |-> GwIp, hwsrc |-> NoMac,        ok |-> TRUE],
    [arp |-> TRUE,  psrc |-> NoIp, hwsrc |-> NoMac,        ok |-> FALSE],
    [arp |-> TRUE,  psrc |-> GwIp, hwsrc |-> <<"bb">>,     ok |-> FALSE],
    [arp |-> FALSE, psrc |-> NoIp, hwsrc |-> NoMac,        ok |-> TRUE] }

\* neighbor tables as _list_neighbor_devices returns them: the rows of
\* "ip neigh" / "arp -a" in output order; a row of "ip neigh" without
\* lladdr (FAILED, INCOMPLETE) has a blank mac, and one IP can have a row
\* per interface.  The empty table is also the answer when the command fails.
NeighborTables ==
  { << >>,
    << [ip |-> GwIp, mac |-> <<"AA">>] >>,
    << [ip |-> GwIp, mac |-> <<"bb">>] >>,
    << [ip |-> GwIp, mac |-> NoMac], [ip |-> GwIp, mac |-> <<"aa">>] >>,
    << [ip |-> OtherIp, mac |-> <<"bb">>], [ip |-> GwIp, mac |-> <<"aa">>] >> }

\* answers of _get_default_gateway_ip; NoIp is None
GatewayInputs == { NoIp, GwIp, OtherIp }

VARIABLES
  arp_sniffer,       \* _arp_sniffer: 0 is None, else a sniffer id
  arpState,          \* per AsyncSniffer object: absent, created, live, dead
  arp_events,        \* _arp_events, newest event first
  ip_to_macs,        \* _ip_to_macs; a key that is absent maps to {}
  gateway_ip_last,   \* _gateway_ip_last, NoIp is None
  gateway_mac_last,  \* _gateway_mac_last, NoMac is None
  mq,                \* per handler: position in the summary query, locals
  obs,               \* history: the (gateway ip, gateway mac) each ended
                     \* query resolved, in the order the queries ended
  observed           \* history: every (ip, mac) taken in since process start

mitmVars == <<arp_sniffer, arpState, arp_events, ip_to_macs, gateway_ip_last,
              gateway_mac_last, mq, obs, observed>>

IdleQuery == [at |-> "idle", conflicts |-> {}, gw_ip |-> NoIp, merged |-> {}]

\* the module-level assignments of app.py
InitMitm ==
  /\ arp_sniffer = 0
  /\ arpState = [s \in ArpSnifferIds |-> "absent"]
  /\ arp_events = << >>
  /\ ip_to_macs = [ip \in MitmIps |-> {}]
  /\ gateway_ip_last = NoIp
  /\ gateway_mac_last = NoMac
  /\ mq = [h \in Handlers |-> IdleQuery]
  /\ obs = << >>
  /\ observed = {}

(***************************************************************************)
(* Part 3: values and state of the discovery job                           *)
(***************************************************************************)
NoCidr == << >>

\* list(IPv4Network("10.0.0.0/27").hosts())
TenHosts ==
  << "10.0.0.1", "10.0.0.2", "10.0.0.3", "10.0.0.4", "10.0.0.5",
     "10.0.0.6", "10.0.0.7", "10.0.0.8", "10.0.0.9", "10.0.0.10",
     "10.0.0.11", "10.0.0.12", "10.0.0.13", "10.0.0.14", "10.0.0.15",
     "10.0.0.16", "10.0.0.17", "10.0.0.18", "10.0.0.19", "10.0.0.20",
     "10.0.0.21", "10.0.0.22", "10.0.0.23", "10.0.0.24", "10.0.0.25",
     "10.0.0.26", "10.0.0.27", "10.0.0.28", "10.0.0.29", "10.0.0.30" >>

\* what ipaddress.IPv4Network(cidr, strict=False) makes of a stripped cidr
\* string: ok is FALSE where it raises ValueError, cidr is str(net),
\* is_private is net.is_private, hosts is list(net.hosts()), each host with
\* the verdict of _is_private_v4 (addr.is_private).  The library counts the
\* link-local range 169.254.0.0/16 as private.
Networks ==
  [c \in {<<"192.168.1.1/30">>, <<"192.168.1.0/30">>, <<"10.0.0.0/27">>,
          <<"169.254.0.0/30">>, <<"8.8.8.0/30">>, <<"bogus">>} |->
     CASE c \in {<<"192.168.1.1/30">>, <<"192.168.1.0/30">>} ->
            [ok |-> TRUE, cidr |-> <<"192.168.1.0/30">>, is_private |-> TRUE,
             hosts |-> << [ip |-> <<"192.168.1.1">>, private |-> TRUE],
                          [ip |-> <<"192.168.1.2">>, private |-> TRUE] >>]
       [] c = <<"10.0.0.0/27">> ->
            [ok |-> TRUE, cidr |-> <<"10.0.0.0/27">>, is_private |-> TRUE,
             hosts |-> [i \in 1..Len(TenHosts) |->
                          [ip |-> <<TenHosts[i]>>, private |-> TRUE]]]
       [] c = <<"169.254.0.0/30">> ->
            [ok |-> TRUE, cidr |-> <<"169.254.0.0/30">>, is_private |-> TRUE,
             hosts |-> << [ip |-> <<"169.254.0.1">>, private |-> TRUE],
                          [ip |-> <<"169.254.0.2">>, private |-> TRUE] >>]
       [] c = <<"8.8.8.0/30">> ->
            [ok |-> TRUE, cidr |-> <<"8.8.8.0/30">>, is_private |-> FALSE,
             hosts |-> << [ip |-> <<"8.8.8.1">>, private |-> FALSE],
                          [ip |-> <<"8.8.8.2">>, private |-> FALSE] >>]
       [] OTHER ->
            [ok |-> FALSE, cidr |-> NoCidr, is_private |-> FALSE,
             hosts |-> << >>]]

\* the "cidr" field of the request body as the client sends it
CidrInputs ==
  { NoCidr, <<SP, "192.168.1.1/30">>, <<"8.8.8.0/30">>, <<"bogus">> }

\* the cidrs sent in the runs of one sweep after the other: a private
\* network of thirty hosts, a link-local one, a public one
SweepCidrInputs ==
  { <<"10.0.0.0/27">>, <<"169.254.0.0/30">>, <<"8.8.8.0/30">> }

\* the "max_hosts" field of the request body: below and above the clamp
MaxHostsInputs == { -3, 5, 600 }

\* answers of _get_local_ipv4_networks: the cidr of each network found,
\* private ones first
LocalNetInputs ==
  { << >>, << <<"192.168.1.0/30">> >>, << <<"8.8.8.0/30">> >> }

\* what "ip neigh" answers after a sweep: nothing; two rows of one ip; two ips
DiscoveredTables ==
  { << >>,
    << [ip |-> GwIp, mac |-> NoMac], [ip |-> GwIp, mac |-> <<"aa">>] >>,
    << [ip |-> OtherIp, mac |-> <<"bb">>], [ip |-> GwIp, mac |-> <<"aa">>] >> }

\* the green threads serving POST /api/discover/start
Starters == {1, 2}

JobIds == 1..MaxJobs

VARIABLES
  discover_job,      \* _discover_job
  discover_results,  \* _discover_results
  dh,                \* per start handler: position in api_discover_start
  job,               \* per spawned _run_discovery: position and locals
  pinged             \* history: the addresses a ping was sent to

discVars == <<discover_job, discover_results, dh, job, pinged>>

IdleStart == [at |-> "idle", max_hosts |-> 0]

NoJob == [at |-> "none", cidr |-> NoCidr, max_hosts |-> 0, count |-> 0,
          pos |-> 0]

\* the module-level assignments of app.py; the keys cidr and max_hosts are
\* absent from the first job record
InitDisc ==
  /\ discover_job = [running |-> FALSE, started |-> FALSE,
                     finished |-> FALSE, cidr |-> NoCidr, max_hosts |-> 0]
  /\ discover_results = << >>
  /\ dh = [h \in Starters |-> IdleStart]
  /\ job = [j \in JobIds |-> NoJob]
  /\ pinged = {}

(***************************************************************************)
(* Part 4: values and state of the router leases and the merged devices    *)
(***************************************************************************)
COMMA == ","
NoName == << >>

\* the first line of a CSV export
HeaderLine == <<"ip", COMMA, "mac", COMMA, "hostname">>

\* the tokens that are all digits, that are a MAC address of 17 characters,
\* that are a dotted IPv4 address
DigitTokens == { "1700" }
MacTokens == { "AA", "aa", "bb" }
IpTokens == { "192.168.1.1", "192.168.1.254" }

\* lease exports as the operator uploads them, one sequence of tokens per
\* line: two CSV files with a header (the second with a blank line and with
\* a row of a mac alone), a header alone, a blank text, an OpenWrt
\* dhcp.leases file, a CSV row without header, a line without any address
TextA ==
  << HeaderLine,
     <<"192.168.1.1", COMMA, SP, "AA", COMMA, "nas">>,
     <<"192.168.1.254", COMMA, "bb", COMMA>> >>
TextB ==
  << HeaderLine,
     <<SP>>,
     <<"192.168.1.1", COMMA, "bb", COMMA, "printer">>,
     <<COMMA, "aa", COMMA, "tv">> >>
TextHeaderOnly == << HeaderLine >>
TextBlank == << <<SP>> >>
TextOpenWrt ==
  << <<"1700", SP, "aa", SP, "192.168.1.254", SP, "nas", SP, "*">>,
     <<"1700", SP, "bb", SP, "192.168.1.1", SP, "*", SP, "*">>,
     <<"1700", SP, "bb", SP, "gone", SP, "tv", SP, "*">> >>
TextNoHeader == << <<"bb", COMMA, "192.168.1.254">> >>
TextNoise == << <<"hello">> >>

LeaseTexts ==
  { TextA, TextB, TextHeaderOnly, TextBlank, TextOpenWrt, TextNoHeader,
    TextNoise }

\* the neighbor tables the merge is asked about: those of part 2 and one
\* that lists an address with its MAC first and without lladdr after
MergeNeighTables ==
  NeighborTables
    \cup { << [ip |-> GwIp, mac |-> <<"aa">>], [ip |-> GwIp, mac |-> NoMac] >> }

\* the green threads serving GET /api/devices/merged
MergeReaders == {1, 2}

VARIABLES
  router_leases,     \* _router_leases
  imports,           \* history: the texts of the import requests, in order
  lq                 \* per reader: position in api_devices_merged

leaseVars == <<router_leases, imports, lq>>

InitLease ==
  /\ router_leases = << >>
  /\ imports = << >>
  /\ lq = [h \in MergeReaders |-> "idle"]

(***************************************************************************)
(* Part 5: values and state of the capture tool (tshark) registry          *)
(***************************************************************************)
NoIface == << >>

\* the "interface" field of a start request as the client sends it
CaptureIfaceInputs == { NoIface, <<SP, "wlan0">>, <<"eth0">> }

\* the names _list_interfaces finds: none, or the wireless interface
InterfaceSets == { {}, { <<"wlan0">> } }

\* the "duration_seconds" field of a start request: above the clamp
DurationInputs == { 1000 }

\* the milliseconds of the clock; two starts can fall into one
Ticks == 1..MaxCaptures

\* the capture id _safe_capture_filename derives from the clock
CaptureIdOf(t) == << <<"capture_1">>, <<"capture_2">>, <<"capture_3">>,
                     <<"capture_4">> >>[t]

\* the "capture_id" field of a stop request as the client sends it
CaptureIdInputs == { <<"nope">>, <<SP, "capture_1">>, <<"capture_2">> }

\* the processes subprocess.Popen can create
Pids == 1..MaxCaptures

\* the green threads serving POST /api/capture/start
CaptureStarters == {1, 2}

VARIABLES
  tshark_processes,  \* _tshark_processes: the set of [id, pid, ...] entries
  procState,         \* per process: none, alive, exited
  signalled,         \* the processes terminate() was delivered to
  ch,                \* per start handler: position in api_capture_start
  now                \* the clock tick of the latest start

capVars == <<tshark_processes, procState, signalled, ch, now>>

IdleCapture == [at |-> "idle", iface |-> NoIface, duration |-> 0]

InitCapture ==
  /\ tshark_processes = {}
  /\ procState = [p \in Pids |-> "none"]
  /\ signalled = {}
  /\ ch = [h \in CaptureStarters |-> IdleCapture]
  /\ now = 1

(***************************************************************************)
(* Part 6: values and state of the process proxies (ping, traceroute and   *)
(* the commands the other parts run)                                       *)
(***************************************************************************)
DOT == "."
DASH == "-"
SEMI == ";"
NoHost == << >>

\* the characters [A-Za-z0-9] of _HOST_RE; an address counts as one token
AlnumTokens == { "a", "b", "10.0.0.5" }

\* the strings ipaddress.ip_address() accepts
IpLiterals == { <<"10.0.0.5">> }

\* host arguments of the ping and traceroute requests
HostInputs ==
  { NoHost, <<SP>>, <<SP, "10.0.0.5", SP>>, <<"a", DOT, "b">>, <<"a">>,
    <<DASH, "a">>, <<"a", SP, "b">>, <<"a", SEMI, "b">> }

\* the green threads, resp. request threads, serving the proxy routes
ProxyHandlers == {1, 2}

\* the commands other functions of app.py hand to _run_command: the ping of
\* the sweep, the neighbor-table read, the routing-table read
InternalOps == { "ping_once", "neigh", "route" }

\* how a started command ends by itself; a command that hangs does not end
Outcomes == { "exit0", "exit1", "missing" }

VARIABLES
  px,                \* per handler: the command it waits for
  invoked,           \* history: the commands handed to subprocess.run
  replies,           \* history: what the callers got back
  nproxy             \* number of commands and requests so far

proxyVars == <<px, invoked, replies, nproxy>>

IdleProxy ==
  [at |-> "idle", prog |-> "none", op |-> "none", raw |-> NoHost,
   host |-> NoHost, timeout |-> 0]

InitProxy ==
  /\ px = [h \in ProxyHandlers |-> IdleProxy]
  /\ invoked = {}
  /\ replies = {}
  /\ nproxy = 0

(***************************************************************************)
(* Part 7: values and state of the lock of CaptureState.  The fields the   *)
(* lock protects are those of part 1; here only the ones that decide who   *)
(* takes the lock next are kept, and every acquire and release is a step.  *)
(***************************************************************************)
\* the methods of CaptureState a request thread calls
LockOps == { "start", "stop", "set_filter", "get_status", "get_packets" }

\* a request thread and a sniffer thread as holders of the lock
NoHolder == << >>
Req(c) == <<"req", c>>
Snf(s) == <<"snf", s>>

VARIABLES
  lock,              \* _lock: the thread that holds it, or NoHolder
  req,               \* per request thread: the method it is in and where
  snf,               \* per sniffer thread: its position in _on_packet
  lk_running,        \* _running
  lk_sniffer,        \* _sniffer: 0 is None
  lk_thread,         \* per AsyncSniffer: the state of its thread
  lk_target          \* per request thread: the local "sniffer" of stop()

lockVars == <<lock, req, snf, lk_running, lk_sniffer, lk_thread, lk_target>>

IdleReq == [at |-> "idle", op |-> "none"]

InitLock ==
  /\ lock = NoHolder
  /\ req = [c \in Callers |-> IdleReq]
  /\ snf = [s \in SnifferIds |-> "idle"]
  /\ lk_running = FALSE
  /\ lk_sniffer = 0
  /\ lk_thread = [s \in SnifferIds |-> "absent"]
  /\ lk_target = [c \in Callers |-> 0]

(***************************************************************************)
(* Part 8: values and state of the e-mail masking of the IP security tool  *)
(***************************************************************************)
AT == "@"
PLUS == "+"
STAR == "*"
NL == "LF"

\* longest user part of the addresses tried
MaxUserLen == 4

\* [a-zA-Z0-9_.+-], [a-zA-Z0-9-] and [a-zA-Z0-9-.] of email_regex
EmailAlnum == { "a", "b", "c" }
UserChars == EmailAlnum \cup { PLUS, DOT, DASH }
LabelChars == EmailAlnum \cup { DASH }
RestChars == EmailAlnum \cup { DASH, DOT }

\* the strings over a set of characters, up to a length
StringsUpTo(chars, n) == UNION { [1..k -> chars] : k \in 0..n }

\* the arguments of mask_email: a user part, zero to two "@", a label, a
\* dot, the rest of the domain and a tail, each of which may be missing or
\* hold a character that its place does not allow
EmailInputs ==
  { u \o a \o l \o d \o r \o t :
      u \in StringsUpTo({ "a", "b", PLUS }, MaxUserLen),
      a \in { << >>, <<AT>>, <<AT, AT>> },
      l \in { << >>, <<"c">>, <<DASH>>, <<PLUS>> },
      d \in { << >>, <<DOT>> },
      r \in { << >>, <<"c">>, <<DOT>>, <<"c", DOT, "c">>, <<NL>> },
      t \in { << >>, <<NL>>, <<SP>> } }

NoEmail == << >>
NoResult == [valid |-> FALSE, text |-> << >>]
InvalidEmailFormat == [valid |-> FALSE, text |-> <<"Invalid email format.">>]
ErrorProcessingEmail == [valid |-> FALSE, text |-> <<"Error processing email.">>]

VARIABLES
  email,             \* the argument of the call of mask_email
  masked             \* what the call returned, NoResult before it returns

maskVars == <<email, masked>>

InitMask ==
  /\ email = NoEmail
  /\ masked = NoResult

\* the variables outside part 1
notCapture == <<mitmVars, discVars, leaseVars, capVars, proxyVars, lockVars, maskVars>>

\* the variables outside part 2
notMitm == <<vars, discVars, leaseVars, capVars, proxyVars, lockVars, maskVars>>

\* the variables outside part 3
notDisc == <<vars, mitmVars, leaseVars, capVars, proxyVars, lockVars, maskVars>>

\* the variables outside part 4
notLease == <<vars, mitmVars, discVars, capVars, proxyVars, lockVars, maskVars>>

\* the variables outside part 5
notCap == <<vars, mitmVars, discVars, leaseVars, proxyVars, lockVars, maskVars>>

\* the variables outside part 6
notProxy == <<vars, mitmVars, discVars, leaseVars, capVars, lockVars, maskVars>>

\* the variables outside part 7
notLock == <<vars, mitmVars, discVars, leaseVars, capVars, proxyVars, maskVars>>

\* the variables outside part 8
notMask == <<vars, mitmVars, discVars, leaseVars, capVars, proxyVars, lockVars>>

(***************************************************************************)
(* Pure helpers                                                            *)
(***************************************************************************)
RECURSIVE LStrip(_)
LStrip(s) == IF s # << >> /\ Head(s) = SP THEN LStrip(Tail(s)) ELSE s

RECURSIVE RStrip(_)
RStrip(s) ==
  IF s # << >> /\ s[Len(s)] = SP THEN RStrip(SubSeq(s, 1, Len(s) - 1)) ELSE s

\* str.strip()
Strip(s) == RStrip(LStrip(s))

ZeroStats ==
  [packets_total |-> 0, packets_in |-> 0, packets_out |-> 0,
   bytes_total |-> 0, bytes_in |-> 0, bytes_out |-> 0]

\* mutant: the table lacks the entry of ICMP
M_Protocol_NoIcmp(n) ==
  CASE n = 6 -> "TCP"
    [] n = 17 -> "UDP"
    [] OTHER -> "OTHER"

\* {6: "TCP", 17: "UDP", 1: "ICMP"}.get(proto_num, "OTHER")
Protocol(n) ==
  CASE n = 6 -> "TCP"
    [] n = 17 -> "UDP"
    [] n = 1 -> "ICMP"
    [] OTHER -> "OTHER"

\* the verdict of _packet_ok once it has read the filter f
PacketOk(f, src, dst) == IF f = NoIp THEN TRUE ELSE (f = src \/ f = dst)

\* the row _on_packet builds before it takes the lock (id=0)
MakeRow(pkt) ==
  [id |-> 0, src |-> pkt.src, dst |-> pkt.dst,
   protocol |-> Protocol(pkt.proto), length |-> pkt.len]

\* mutant: a plain list append, nothing is evicted
M_DequeAppend_NoEvict(q, row, cap) == Append(q, row)

\* deque(maxlen=cap).append(row)
DequeAppend(q, row, cap) ==
  IF Len(q) < cap THEN Append(q, row)
  ELSE IF cap = 0 THEN q
  ELSE Append(Tail(q), row)

\* mutant: "else" in place of "elif row.src == f"
M_CountRow_ElseIn(st, row, f) ==
  LET t == [st EXCEPT !.packets_total = @ + 1,
                      !.bytes_total = @ + row.length]
  IN IF f # NoIp
     THEN IF row.dst = f
          THEN [t EXCEPT !.packets_out = @ + 1, !.bytes_out = @ + row.length]
          ELSE [t EXCEPT !.packets_in = @ + 1, !.bytes_in = @ + row.length]
     ELSE t

\* mutant: the guard "if f" is lost and every row that is not outbound is
\* counted as inbound
M_CountRow_NoFilterGuard(st, row, f) ==
  LET t == [st EXCEPT !.packets_total = @ + 1,
                      !.bytes_total = @ + row.length]
  IN IF row.dst = f
     THEN [t EXCEPT !.packets_out = @ + 1, !.bytes_out = @ + row.length]
     ELSE [t EXCEPT !.packets_in = @ + 1, !.bytes_in = @ + row.length]

\* mutant: the totals are counted only for a row that is given a direction
M_CountRow_TotalsInBranch(st, row, f) ==
  LET t == [st EXCEPT !.packets_total = @ + 1,
                      !.bytes_total = @ + row.length]
  IN IF f # NoIp
     THEN IF row.dst = f
          THEN [t EXCEPT !.packets_out = @ + 1, !.bytes_out = @ + row.length]
          ELSE IF row.src = f
          THEN [t EXCEPT !.packets_in = @ + 1, !.bytes_in = @ + row.length]
          ELSE st
     ELSE st

\* the counter updates of _on_packet for a row appended under filter f
CountRow(st, row, f) ==
  LET t == [st EXCEPT !.packets_total = @ + 1,
                      !.bytes_total = @ + row.length]
  IN IF f # NoIp
     THEN IF row.dst = f
          THEN [t EXCEPT !.packets_out = @ + 1, !.bytes_out = @ + row.length]
          ELSE IF row.src = f
          THEN [t EXCEPT !.packets_in = @ + 1, !.bytes_in = @ + row.length]
          ELSE t
     ELSE t

\* rows[-limit:]
LastN(rows, n) ==
  IF n >= Len(rows) THEN rows ELSE SubSeq(rows, Len(rows) - n + 1, Len(rows))

\* mutant: rows[:limit] in place of rows[-limit:]
M_GetPackets_Head(q, since_id, limit) ==
  LET rows == SelectSeq(q, LAMBDA p : p.id > since_id)
  IN IF limit > 0 /\ limit < Len(rows) THEN SubSeq(rows, 1, limit) ELSE rows

\* the list get_packets returns for the buffer q
GetPackets(q, since_id, limit) ==
  LET rows == SelectSeq(q, LAMBDA p : p.id > since_id)
  IN IF limit > 0 THEN LastN(rows, limit) ELSE rows

\* the dict get_status returns
GetStatus ==
  [running |-> running, filter_ip |-> filter_ip, iface |-> iface,
   buffer_len |-> Len(packets), last_id |-> next_id - 1, stats |-> stats]

(***************************************************************************)
(* Initial state: CaptureState.__init__                                    *)
(***************************************************************************)
IdleCb == [at |-> "idle", pkt |-> NoFrame, f |-> NoIp]

InitCaptureState ==
  /\ sniffer = 0
  /\ running = FALSE
  /\ filter_ip = NoIp
  /\ iface = "None"
  /\ next_id = 1
  /\ packets = << >>
  /\ stats = ZeroStats
  /\ snifferState = [s \in SnifferIds |-> "absent"]
  /\ stopping = [c \in Callers |-> 0]
  /\ cb = [s \in SnifferIds |-> IdleCb]
  /\ issued = << >>
  /\ session = << >>
  /\ freshIface = "None"
  /\ nframes = 0
  /\ ncalls = 0

Init ==
  /\ InitCaptureState
  /\ InitMitm
  /\ InitDisc
  /\ InitLease
  /\ InitCapture
  /\ InitProxy
  /\ InitLock
  /\ InitMask

\* number of AsyncSniffer objects constructed so far
NumCreated == Cardinality({s \in SnifferIds : snifferState[s] # "absent"})

\* the sniffers whose thread can still deliver frames to the buffer
LiveSniffers == {s \in SnifferIds : snifferState[s] = "live"}

\* some request thread is free to issue a call: a thread is busy only while
\* it is between the two parts of stop()
CallerFree == \E c \in Callers : stopping[c] = 0

(***************************************************************************)
(* start(ip_filter, iface)                                                 *)
(***************************************************************************)
\* mutant: the running branch falls through to the counter reset
M_StartRunning_Reset(ip, ifc) ==
  /\ CallerFree
  /\ ncalls < MaxCalls
  /\ running
  /\ filter_ip' = Strip(ip)
  /\ iface' = ifc
  /\ stats' = ZeroStats
  /\ ncalls' = ncalls + 1
  /\ UNCHANGED <<sniffer, running, next_id, packets, snifferState,
                 stopping, cb, issued, session, freshIface, nframes>>
  /\ UNCHANGED notCapture

\* the branch "if self._running": update filter and iface, return
StartRunning(ip, ifc) ==
  /\ CallerFree
  /\ ncalls < MaxCalls
  /\ running
  /\ filter_ip' = Strip(ip)
  /\ iface' = ifc
  /\ ncalls' = ncalls + 1
  /\ UNCHANGED <<sniffer, running, next_id, packets, stats, snifferState,
                 stopping, cb, issued, session, freshIface, nframes>>
  /\ UNCHANGED notCapture

\* mutant: the fresh start also resets _next_id to 1
M_StartFresh_ResetId(ip, ifc) ==
  /\ CallerFree
  /\ ncalls < MaxCalls
  /\ NumCreated < MaxSniffers
  /\ ~running
  /\ filter_ip' = Strip(ip)
  /\ iface' = ifc
  /\ stats' = ZeroStats
  /\ next_id' = 1
  /\ sniffer' = NumCreated + 1
  /\ \E started \in BOOLEAN :
       /\ snifferState' = [snifferState EXCEPT ![NumCreated + 1] =
                             IF started THEN "live" ELSE "created"]
       /\ running' = started
  /\ session' = << >>
  /\ freshIface' = ifc
  /\ ncalls' = ncalls + 1
  /\ UNCHANGED <<packets, stopping, cb, issued, nframes>>
  /\ UNCHANGED notCapture

\* mutant: the fresh start forgets the counter reset
M_StartFresh_NoReset(ip, ifc) ==
  /\ CallerFree
  /\ ncalls < MaxCalls
  /\ NumCreated < MaxSniffers
  /\ ~running
  /\ filter_ip' = Strip(ip)
  /\ iface' = ifc
  /\ sniffer' = NumCreated + 1
  /\ \E started \in BOOLEAN :
       /\ snifferState' = [snifferState EXCEPT ![NumCreated + 1] =
                             IF started THEN "live" ELSE "created"]
       /\ running' = started
  /\ session' = << >>
  /\ freshIface' = ifc
  /\ ncalls' = ncalls + 1
  /\ UNCHANGED <<next_id, packets, stats, stopping, cb, issued, nframes>>
  /\ UNCHANGED notCapture

\* the fresh start: reset the counters, construct the sniffer and start it;
\* AsyncSniffer.start() either starts the thread or raises, and an exception
\* leaves "with" before _running is set
StartFresh(ip, ifc) ==
  /\ CallerFree
  /\ ncalls < MaxCalls
  /\ NumCreated < MaxSniffers
  /\ ~running
  /\ filter_ip' = Strip(ip)
  /\ iface' = ifc
  /\ stats' = ZeroStats
  /\ sniffer' = NumCreated + 1
  /\ \E started \in BOOLEAN :
       /\ snifferState' = [snifferState EXCEPT ![NumCreated + 1] =
                             IF started THEN "live" ELSE "created"]
       /\ running' = started
  /\ session' = << >>
  /\ freshIface' = ifc
  /\ ncalls' = ncalls + 1
  /\ UNCHANGED <<next_id, packets, stopping, cb, issued, nframes>>
  /\ UNCHANGED notCapture

(***************************************************************************)
(* stop()                                                                  *)
(***************************************************************************)
\* mutant: stop() also clears the buffer
M_StopLocked_Clear(c) ==
  /\ stopping[c] = 0
  /\ ncalls < MaxCalls
  /\ sniffer' = 0
  /\ running' = FALSE
  /\ packets' = << >>
  /\ stopping' = [stopping EXCEPT ![c] = sniffer]
  /\ ncalls' = ncalls + 1
  /\ UNCHANGED <<filter_ip, iface, next_id, stats, snifferState, cb,
                 issued, session, freshIface, nframes>>
  /\ UNCHANGED notCapture

\* the locked part: take the handle, clear the fields, release the lock
StopLocked(c) ==
  /\ stopping[c] = 0
  /\ ncalls < MaxCalls
  /\ sniffer' = 0
  /\ running' = FALSE
  /\ stopping' = [stopping EXCEPT ![c] = sniffer]
  /\ ncalls' = ncalls + 1
  /\ UNCHANGED <<filter_ip, iface, next_id, packets, stats, snifferState, cb,
                 issued, session, freshIface, nframes>>
  /\ UNCHANGED notCapture

\* sniffer.stop() outside the lock.  On a live sniffer it either stops and
\* joins the sniffer thread (which first finishes the callback it is in) or
\* raises and leaves the thread running; on a sniffer that never started it
\* raises.  The exception is swallowed.
StopSniffer(c) ==
  /\ stopping[c] # 0
  /\ LET h == stopping[c]
     IN \/ /\ snifferState[h] = "live"
           /\ cb[h].at = "idle"
           /\ snifferState' = [snifferState EXCEPT ![h] = "stopped"]
        \/ /\ snifferState[h] = "live"
           /\ UNCHANGED snifferState
        \/ /\ snifferState[h] # "live"
           /\ UNCHANGED snifferState
  /\ stopping' = [stopping EXCEPT ![c] = 0]
  /\ UNCHANGED <<sniffer, running, filter_ip, iface, next_id, packets, stats,
                 cb, issued, session, freshIface, nframes, ncalls>>
  /\ UNCHANGED notCapture

(***************************************************************************)
(* set_filter(ip)                                                          *)
(***************************************************************************)
\* mutant: the new filter is applied to the rows already buffered
M_SetFilter_Purge(ip) ==
  /\ CallerFree
  /\ ncalls < MaxCalls
  /\ filter_ip' = Strip(ip)
  /\ packets' = SelectSeq(packets,
                          LAMBDA p : PacketOk(Strip(ip), p.src, p.dst))
  /\ ncalls' = ncalls + 1
  /\ UNCHANGED <<sniffer, running, iface, next_id, stats,
                 snifferState, stopping, cb, issued, session, freshIface,
                 nframes>>
  /\ UNCHANGED notCapture

\* "with self._lock: self._filter_ip = (ip or "").strip()"
SetFilter(ip) ==
  /\ CallerFree
  /\ ncalls < MaxCalls
  /\ filter_ip' = Strip(ip)
  /\ ncalls' = ncalls + 1
  /\ UNCHANGED <<sniffer, running, iface, next_id, packets, stats,
                 snifferState, stopping, cb, issued, session, freshIface,
                 nframes>>
  /\ UNCHANGED notCapture

(***************************************************************************)
(* get_status() and get_packets(since_id, limit): snapshot reads under the *)
(* lock; the value returned is GetStatus, resp. GetPackets(packets,        *)
(* since_id, limit), of the state in which the step is taken               *)
(***************************************************************************)
GetStatusCall ==
  /\ CallerFree
  /\ ncalls < MaxCalls
  /\ ncalls' = ncalls + 1
  /\ UNCHANGED <<sniffer, running, filter_ip, iface, next_id, packets, stats,
                 snifferState, stopping, cb, issued, session, freshIface,
                 nframes>>
  /\ UNCHANGED notCapture

GetPacketsCall(since_id, limit) ==
  /\ CallerFree
  /\ ncalls < MaxCalls
  /\ ncalls' = ncalls + 1
  /\ UNCHANGED <<sniffer, running, filter_ip, iface, next_id, packets, stats,
                 snifferState, stopping, cb, issued, session, freshIface,
                 nframes>>
  /\ UNCHANGED notCapture

(***************************************************************************)
(* _on_packet(pkt), run by the thread of sniffer s for each frame          *)
(***************************************************************************)
\* "if IP not in pkt: return"
OnPacketNotIp(s, pkt) ==
  /\ snifferState[s] = "live"
  /\ cb[s].at = "idle"
  /\ nframes < MaxFrames
  /\ ~pkt.ip
  /\ nframes' = nframes + 1
  /\ UNCHANGED <<sniffer, running, filter_ip, iface, next_id, packets, stats,
                 snifferState, stopping, cb, issued, session, freshIface,
                 ncalls>>
  /\ UNCHANGED notCapture

\* _packet_ok reads the filter under the lock and decides; a rejected frame
\* ends the callback, an accepted one goes on to build its row
OnPacketCheck(s, pkt) ==
  /\ snifferState[s] = "live"
  /\ cb[s].at = "idle"
  /\ nframes < MaxFrames
  /\ pkt.ip
  /\ cb' = [cb EXCEPT ![s] =
              IF PacketOk(filter_ip, pkt.src, pkt.dst)
              THEN [at |-> "accepted", pkt |-> pkt, f |-> filter_ip]
              ELSE IdleCb]
  /\ nframes' = nframes + 1
  /\ UNCHANGED <<sniffer, running, filter_ip, iface, next_id, packets, stats,
                 snifferState, stopping, issued, session, freshIface, ncalls>>
  /\ UNCHANGED notCapture

\* the second locked block: assign the id, append, count
OnPacketAppend(s) ==
  /\ cb[s].at = "accepted"
  /\ LET row == [MakeRow(cb[s].pkt) EXCEPT !.id = next_id]
     IN /\ next_id' = next_id + 1
        /\ packets' = DequeAppend(packets, row, MaxPackets)
        /\ stats' = CountRow(stats, row, filter_ip)
        /\ issued' = Append(issued, row.id)
        /\ session' = Append(session, [row |-> row, f |-> filter_ip])
  /\ cb' = [cb EXCEPT ![s] = IdleCb]
  /\ UNCHANGED <<sniffer, running, filter_ip, iface, snifferState, stopping,
                 freshIface, nframes, ncalls>>
  /\ UNCHANGED notCapture

(***************************************************************************)
(* Part 1: next-state relation                                             *)
(***************************************************************************)
Next ==
  \/ \E ip \in IpInputs, ifc \in IfaceInputs : StartRunning(ip, ifc)
  \/ \E ip \in IpInputs, ifc \in IfaceInputs : StartFresh(ip, ifc)
  \/ \E c \in Callers : StopLocked(c)
  \/ \E c \in Callers : StopSniffer(c)
  \/ \E ip \in IpInputs : SetFilter(ip)
  \/ GetStatusCall
  \/ \E since_id \in SinceInputs, limit \in LimitInputs :
       GetPacketsCall(since_id, limit)
  \/ \E s \in SnifferIds, pkt \in Frames : OnPacketNotIp(s, pkt)
  \/ \E s \in SnifferIds, pkt \in Frames : OnPacketCheck(s, pkt)
  \/ \E s \in SnifferIds : OnPacketAppend(s)

(***************************************************************************)
(* Part 2: pure helpers of the indicator engine                            *)
(***************************************************************************)
\* str.lower() on one token
Lower(t) == IF t = "AA" THEN "aa" ELSE t

\* _normalize_mac: (mac or "").strip().lower()
NormalizeMac(mac) ==
  LET m == Strip(mac) IN [i \in 1..Len(m) |-> Lower(m[i])]

\* _neighbor_mac_for_ip once the table is read: the normalized mac of the
\* first row whose ip is the one asked for, blank or not; "" if no row is
RECURSIVE NeighborMacForIp(_, _)
NeighborMacForIp(table, ip) ==
  IF table = << >> THEN NoMac
  ELSE IF Head(table).ip = ip THEN NormalizeMac(Head(table).mac)
  ELSE NeighborMacForIp(Tail(table), ip)

\* the first n elements of q: q[:n]
FirstN(q, n) == IF n >= Len(q) THEN q ELSE SubSeq(q, 1, n)

\* an event of the log; "time" is left out, "op" is carried along unread,
\* known_macs is sorted(seen), kept as the set it lists; an event without
\* details has them blank
ArpEvent(kind, ip, new_mac, known_macs) ==
  [kind |-> kind, ip |-> ip, new_mac |-> new_mac, known_macs |-> known_macs]

\* _record_arp_event: deque(maxlen=cap).appendleft(e)
RecordArpEvent(log, e) == FirstN(<<e>> \o log, ArpEventsMax)

\* mutant: the MAC is added to the set before the set is looked at
M_Observe_AddFirst(map, log, ip, mac) ==
  LET seen == map[ip] \cup {mac}
  IN [map |-> [map EXCEPT ![ip] = seen],
      log |-> IF mac \notin seen /\ seen # {}
              THEN RecordArpEvent(log,
                     ArpEvent("ip_conflict_suspected", ip, mac, seen))
              ELSE log]

\* _arp_callback from "seen = _ip_to_macs.setdefault(ip, set())" on: the
\* history map and the log after the pair (ip, mac) is taken in
Observe(map, log, ip, mac) ==
  LET seen == map[ip]
  IN [map |-> [map EXCEPT ![ip] = seen \cup {mac}],
      log |-> IF mac \notin seen /\ Cardinality(seen) > 0
              THEN RecordArpEvent(log,
                     ArpEvent("ip_conflict_suspected", ip, mac, seen))
              ELSE log]

\* the loop of api_mitm_summary over the rows of the neighbor table
RECURSIVE MergeNeighbors(_, _)
MergeNeighbors(map, table) ==
  IF table = << >> THEN map
  ELSE LET ip == Strip(Head(table).ip)
           mac == NormalizeMac(Head(table).mac)
       IN MergeNeighbors(IF ip # NoIp /\ mac # NoMac
                         THEN [map EXCEPT ![ip] = @ \cup {mac}]
                         ELSE map,
                         Tail(table))

\* the (ip, mac) pairs a neighbor table contributes
TablePairs(table) ==
  {<<Strip(table[i].ip), NormalizeMac(table[i].mac)>> : i \in
     {j \in 1..Len(table) : /\ Strip(table[j].ip) # NoIp
                            /\ NormalizeMac(table[j].mac) # NoMac}}

\* mutant: ">= 1" in place of "> 1"
M_Conflicts_One(map) ==
  {[ip |-> ip, macs |-> map[ip]] :
     ip \in {i \in DOMAIN map : Cardinality(map[i]) >= 1}}

\* the list "conflicts" of _compute_mitm_indicators, as the set it lists
Conflicts(map) ==
  {[ip |-> ip, macs |-> map[ip]] :
     ip \in {i \in DOMAIN map : Cardinality(map[i]) > 1}}

Indicator(type, severity, details) ==
  [type |-> type, severity |-> severity, details |-> details]

\* the indicator appended for the list "conflicts"
DuplicateIndicators(conflicts) ==
  IF conflicts # {}
  THEN <<Indicator("duplicate_ip_mapping", "medium", conflicts)>>
  ELSE << >>

\* mutant: the gateway IP is not compared
M_GatewayIndicators_AnyIp(gw_ip, gw_mac, last_ip, last_mac) ==
  IF gw_ip = NoIp THEN << >>
  ELSE IF gw_mac = NoMac
  THEN <<Indicator("gateway_mac_unknown", "info", [gateway_ip |-> gw_ip])>>
  ELSE IF last_mac # NoMac /\ last_mac # gw_mac
  THEN <<Indicator("gateway_mac_changed", "high",
                   [gateway_ip |-> gw_ip, old_mac |-> last_mac,
                    new_mac |-> gw_mac])>>
  ELSE << >>

\* mutant: the stored pair is updated before the comparison
M_GatewayIndicators_UpdateFirst(gw_ip, gw_mac, last_ip, last_mac) ==
  IF gw_ip = NoIp THEN << >>
  ELSE IF gw_mac = NoMac
  THEN <<Indicator("gateway_mac_unknown", "info", [gateway_ip |-> gw_ip])>>
  ELSE IF gw_ip = gw_ip /\ gw_mac # NoMac /\ gw_mac # gw_mac
  THEN <<Indicator("gateway_mac_changed", "high",
                   [gateway_ip |-> gw_ip, old_mac |-> gw_mac,
                    new_mac |-> gw_mac])>>
  ELSE << >>

\* the indicators of the block "if gw_ip:", given the stored pair
GatewayIndicators(gw_ip, gw_mac, last_ip, last_mac) ==
  IF gw_ip = NoIp THEN << >>
  ELSE IF gw_mac = NoMac
  THEN <<Indicator("gateway_mac_unknown", "info", [gateway_ip |-> gw_ip])>>
  ELSE IF last_ip = gw_ip /\ last_mac # NoMac /\ last_mac # gw_mac
  THEN <<Indicator("gateway_mac_changed", "high",
                   [gateway_ip |-> gw_ip, old_mac |-> last_mac,
                    new_mac |-> gw_mac])>>
  ELSE << >>

\* the stored pair after the block "if gw_ip:"
GatewayLast(gw_ip, gw_mac, last_ip, last_mac) ==
  IF gw_ip # NoIp /\ gw_mac # NoMac
  THEN [ip |-> gw_ip, mac |-> gw_mac]
  ELSE [ip |-> last_ip, mac |-> last_mac]

\* mutant: the summary returns the whole event log
M_Recent_All(log) == log

\* recent = list(_arp_events)[:25]
Recent(log) == FirstN(log, RecentEvents)

IsConflict(e) == e.kind = "ip_conflict_suspected"

\* the indicator appended for the recent events
ConflictEventIndicators(log) ==
  IF \E i \in 1..Len(Recent(log)) : IsConflict(Recent(log)[i])
  THEN <<Indicator("arp_conflict_events", "medium",
                   FirstN(Recent(log), EmbeddedEvents))>>
  ELSE << >>

(***************************************************************************)
(* Part 2: derived state                                                   *)
(***************************************************************************)
NumArpCreated == Cardinality({s \in ArpSnifferIds : arpState[s] # "absent"})

\* _arp_monitor_running()
ArpMonitorRunning ==
  IF arp_sniffer = 0 THEN FALSE ELSE arpState[arp_sniffer] = "live"

\* queries begun so far
NumQueries == Len(obs) + Cardinality({h \in Handlers : mq[h].at # "idle"})

(***************************************************************************)
(* _arp_callback(pkt), run by the thread of sniffer s for each frame       *)
(***************************************************************************)
\* mutant: a frame whose fields cannot be read ends the subscription
M_ArpCallback_Crash(s, pkt) ==
  /\ arpState[s] = "live"
  /\ LET ip == Strip(pkt.psrc)
         mac == NormalizeMac(pkt.hwsrc)
     IN IF ~pkt.arp \/ ip = NoIp \/ mac = NoMac
        THEN UNCHANGED <<ip_to_macs, arp_events, observed, arpState>>
        ELSE IF ~pkt.ok
        THEN /\ arpState' = [arpState EXCEPT ![s] = "dead"]
             /\ UNCHANGED <<ip_to_macs, arp_events, observed>>
        ELSE /\ ip_to_macs' = Observe(ip_to_macs, arp_events, ip, mac).map
             /\ arp_events' = Observe(ip_to_macs, arp_events, ip, mac).log
             /\ observed' = observed \cup {<<ip, mac>>}
             /\ UNCHANGED arpState
  /\ UNCHANGED <<arp_sniffer, gateway_ip_last, gateway_mac_last, mq, obs>>
  /\ UNCHANGED notMitm

ArpCallback(s, pkt) ==
  /\ arpState[s] = "live"
  /\ LET ip == Strip(pkt.psrc)
         mac == NormalizeMac(pkt.hwsrc)
     IN IF ~pkt.arp \/ ~pkt.ok \/ ip = NoIp \/ mac = NoMac
        THEN UNCHANGED <<ip_to_macs, arp_events, observed>>
        ELSE /\ ip_to_macs' = Observe(ip_to_macs, arp_events, ip, mac).map
             /\ arp_events' = Observe(ip_to_macs, arp_events, ip, mac).log
             /\ observed' = observed \cup {<<ip, mac>>}
  /\ UNCHANGED <<arp_sniffer, arpState, gateway_ip_last, gateway_mac_last,
                 mq, obs>>
  /\ UNCHANGED notMitm

(***************************************************************************)
(* _start_arp_monitor() and _stop_arp_monitor(), called by the routes      *)
(* /api/mitm/monitor/start and /stop, which turn an exception into a 500   *)
(***************************************************************************)
\* disabled is whether DISABLE_ARP_MONITOR is "1"
StartArpMonitor(disabled) ==
  /\ IF disabled \/ ArpMonitorRunning
     THEN UNCHANGED <<arp_sniffer, arpState, arp_events>>
     ELSE /\ NumArpCreated < MaxArpSniffers
          /\ arp_sniffer' = NumArpCreated + 1
          /\ \E started \in BOOLEAN :
               IF started
               THEN /\ arpState' = [arpState EXCEPT
                                      ![NumArpCreated + 1] = "live"]
                    /\ arp_events' = RecordArpEvent(arp_events,
                         ArpEvent("monitor_started", NoIp, NoMac, {}))
               ELSE /\ arpState' = [arpState EXCEPT
                                      ![NumArpCreated + 1] = "created"]
                    /\ UNCHANGED arp_events
  /\ UNCHANGED <<ip_to_macs, gateway_ip_last, gateway_mac_last, mq, obs,
                 observed>>
  /\ UNCHANGED notMitm

\* sniffer.stop() either stops the sniffer thread or raises and leaves it
\* running; "finally" clears the handle in both cases
StopArpMonitor ==
  /\ IF arp_sniffer = 0
     THEN UNCHANGED <<arp_sniffer, arpState, arp_events>>
     ELSE /\ arp_sniffer' = 0
          /\ IF arpState[arp_sniffer] = "live"
             THEN \E stopped \in BOOLEAN :
                    IF stopped
                    THEN /\ arpState' = [arpState EXCEPT
                                           ![arp_sniffer] = "dead"]
                         /\ arp_events' = RecordArpEvent(arp_events,
                              ArpEvent("monitor_stopped", NoIp, NoMac, {}))
                    ELSE UNCHANGED <<arpState, arp_events>>
             ELSE UNCHANGED <<arpState, arp_events>>
  /\ UNCHANGED <<ip_to_macs, gateway_ip_last, gateway_mac_last, mq, obs,
                 observed>>
  /\ UNCHANGED notMitm

(***************************************************************************)
(* GET /api/mitm/summary: api_mitm_summary and _compute_mitm_indicators.   *)
(* The handler blocks three times: reading the neighbor table, reading the *)
(* default route, reading the neighbor table for the gateway.              *)
(***************************************************************************)
\* the list "indicators" a handler builds when it ends its query having
\* resolved gw_ip and gw_mac
Indicators(h, gw_ip, gw_mac) ==
  DuplicateIndicators(mq[h].conflicts)
  \o GatewayIndicators(gw_ip, gw_mac, gateway_ip_last, gateway_mac_last)
  \o ConflictEventIndicators(arp_events)

\* the response dict of _compute_mitm_indicators
Response(h, gw_ip, gw_mac) ==
  [gateway_ip |-> gw_ip, gateway_mac |-> gw_mac,
   arp_monitor_running |-> ArpMonitorRunning,
   indicators |-> Indicators(h, gw_ip, gw_mac),
   recent_events |-> Recent(arp_events)]

\* from the resolved gateway to "return": compare, update the stored pair,
\* look at the recent events; the value returned is Response(h, gw_ip,
\* gw_mac) of the state in which the step is taken
ComputeMitmIndicators(h, gw_ip, gw_mac) ==
  LET last == GatewayLast(gw_ip, gw_mac, gateway_ip_last, gateway_mac_last)
  IN /\ gateway_ip_last' = last.ip
     /\ gateway_mac_last' = last.mac
     /\ obs' = Append(obs, [ip |-> gw_ip, mac |-> gw_mac])
     /\ mq' = [mq EXCEPT ![h] = IdleQuery]

\* the neighbor table is read; merge it and list the conflicts
MitmSummaryMerge(h, table) ==
  /\ mq[h].at = "idle"
  /\ NumQueries < MaxQueries
  /\ ip_to_macs' = MergeNeighbors(ip_to_macs, table)
  /\ observed' = observed \cup TablePairs(table)
  /\ mq' = [mq EXCEPT ![h] =
              [at |-> "merged",
               conflicts |-> Conflicts(MergeNeighbors(ip_to_macs, table)),
               gw_ip |-> NoIp,
               merged |-> observed \cup TablePairs(table)]]
  /\ UNCHANGED <<arp_sniffer, arpState, arp_events, gateway_ip_last,
                 gateway_mac_last, obs>>
  /\ UNCHANGED notMitm

\* the default route is read: without a gateway the query ends here
MitmSummaryGateway(h, gw) ==
  /\ mq[h].at = "merged"
  /\ IF gw = NoIp
     THEN ComputeMitmIndicators(h, NoIp, NoMac)
     ELSE /\ mq' = [mq EXCEPT ![h].at = "gw", ![h].gw_ip = gw]
          /\ UNCHANGED <<gateway_ip_last, gateway_mac_last, obs>>
  /\ UNCHANGED <<arp_sniffer, arpState, arp_events, ip_to_macs, observed>>
  /\ UNCHANGED notMitm

\* the neighbor table is read for the gateway: look its MAC up and end
MitmSummaryLookup(h, table) ==
  /\ mq[h].at = "gw"
  /\ ComputeMitmIndicators(h, mq[h].gw_ip,
                           NeighborMacForIp(table, mq[h].gw_ip))
  /\ UNCHANGED <<arp_sniffer, arpState, arp_events, ip_to_macs, observed>>
  /\ UNCHANGED notMitm

\* the history map, the event log and the monitor: frames, monitor
\* requests and queries on a host without a default route
NextMitm ==
  \/ \E s \in ArpSnifferIds, pkt \in ArpFrames : ArpCallback(s, pkt)
  \/ \E disabled \in BOOLEAN : StartArpMonitor(disabled)
  \/ StopArpMonitor
  \/ \E h \in Handlers, table \in NeighborTables : MitmSummaryMerge(h, table)
  \/ \E h \in Handlers : MitmSummaryGateway(h, NoIp)

\* the gateway indicators: queries on a host whose ARP monitor is off
NextGateway ==
  \/ \E h \in Handlers, table \in NeighborTables : MitmSummaryMerge(h, table)
  \/ \E h \in Handlers, gw \in GatewayInputs : MitmSummaryGateway(h, gw)
  \/ \E h \in Handlers, table \in NeighborTables : MitmSummaryLookup(h, table)

(***************************************************************************)
(* Part 3: the discovery job                                               *)
(***************************************************************************)
\* max(16, min(int(data.get("max_hosts", 128) or 128), 512))
\* (0 stands for a missing or zero field)
ClampMaxHosts(m) ==
  LET v == IF m = 0 THEN 128 ELSE m
      w == IF v < 512 THEN v ELSE 512
  IN IF w > 16 THEN w ELSE 16

\* the checks of api_discover_start on a non-empty cidr string
Validate(c) ==
  IF c \notin DOMAIN Networks THEN "invalid"
  ELSE IF ~Networks[c].ok THEN "invalid"
  ELSE IF ~Networks[c].is_private THEN "not_private"
  ELSE "ok"

\* jobs spawned so far
NumSpawned == Cardinality({j \in JobIds : job[j].at # "none"})

\* the jobs that have begun their sweep and not yet reached "finally"
Sweeping == {j \in JobIds : job[j].at \in {"sweep", "emit"}}

\* eventlet.spawn_n(_run_discovery, str(net), max_hosts): the job is
\* scheduled, it has not run yet
SpawnJob(c, max_hosts) ==
  /\ NumSpawned < MaxJobs
  /\ job' = [job EXCEPT ![NumSpawned + 1] =
               [at |-> "spawned", cidr |-> Networks[c].cidr,
                max_hosts |-> max_hosts, count |-> 0, pos |-> 0]]

\* the index of the first private host after position pos, Len + 1 if none:
\* "if not _is_private_v4(ip): continue"
RECURSIVE NextHost(_, _)
NextHost(hosts, pos) ==
  IF pos + 1 > Len(hosts) THEN Len(hosts) + 1
  ELSE IF hosts[pos + 1].private THEN pos + 1
  ELSE NextHost(hosts, pos + 1)

\* the hosts of the network a job sweeps
HostsOf(j) == Networks[job[j].cidr].hosts

\* a loop without "if count >= max_hosts: break"
M_SweepOver_NoLimit(j) ==
  NextHost(HostsOf(j), job[j].pos) > Len(HostsOf(j))

\* the loop of the sweep is over: max_hosts pings sent or no host left
SweepOver(j) ==
  \/ job[j].count >= job[j].max_hosts
  \/ NextHost(HostsOf(j), job[j].pos) > Len(HostsOf(j))

\* "Deduplicate by IP": the first row of each non-empty stripped ip
RECURSIVE Dedupe(_, _)
Dedupe(devices, seen) ==
  IF devices = << >> THEN << >>
  ELSE LET ip == Strip(Head(devices).ip)
       IN IF ip = NoIp \/ ip \in seen
          THEN Dedupe(Tail(devices), seen)
          ELSE <<Head(devices)>> \o Dedupe(Tail(devices), seen \cup {ip})

\* a job that ends without a "finally" block
M_Finally_NoClear(j) ==
  /\ UNCHANGED discover_job
  /\ job' = [job EXCEPT ![j] = [NoJob EXCEPT !.at = "done"]]

\* the "finally" block of _run_discovery, on the job record that is current;
\* the function returns and its locals are gone
Finally(j) ==
  /\ discover_job' = [discover_job EXCEPT !.running = FALSE,
                                          !.finished = TRUE]
  /\ job' = [job EXCEPT ![j] = [NoJob EXCEPT !.at = "done"]]

\* the response of api_discover_start to a start while running is set
StartResponseRunning == [ok |-> TRUE, running |-> TRUE, job |-> discover_job]

\* the response of api_discover_start that has spawned a job
StartResponseSpawned(c, max_hosts) ==
  [ok |-> TRUE, running |-> TRUE, cidr |-> Networks[c].cidr,
   max_hosts |-> max_hosts]

\* POST /api/discover/start up to its first blocking call or its return:
\* answer with the job in flight, or reject the cidr (400), or go and
\* detect the local networks, or spawn the job
DiscoverStart(h, cidr, max_hosts) ==
  /\ dh[h].at = "idle"
  /\ IF discover_job.running
     THEN UNCHANGED <<dh, job>>
     ELSE IF Strip(cidr) = NoCidr
     THEN /\ dh' = [dh EXCEPT ![h] = [at |-> "detect",
                                      max_hosts |-> ClampMaxHosts(max_hosts)]]
          /\ UNCHANGED job
     ELSE IF Validate(Strip(cidr)) = "ok"
     THEN /\ SpawnJob(Strip(cidr), ClampMaxHosts(max_hosts))
          /\ UNCHANGED dh
     ELSE UNCHANGED <<dh, job>>
  /\ UNCHANGED <<discover_job, discover_results, pinged>>
  /\ UNCHANGED notDisc

\* _get_local_ipv4_networks has answered: no network is a 400, else the
\* first one is checked like a cidr of the request
DiscoverStartDetected(h, nets) ==
  /\ dh[h].at = "detect"
  /\ dh' = [dh EXCEPT ![h] = IdleStart]
  /\ IF nets # << >> /\ Validate(Head(nets)) = "ok"
     THEN SpawnJob(Head(nets), dh[h].max_hosts)
     ELSE UNCHANGED job
  /\ UNCHANGED <<discover_job, discover_results, pinged>>
  /\ UNCHANGED notDisc

\* _run_discovery begins: a new job record, the results are cleared
RunDiscoveryBegin(j) ==
  /\ job[j].at = "spawned"
  /\ discover_job' = [running |-> TRUE, started |-> TRUE, finished |-> FALSE,
                      cidr |-> job[j].cidr, max_hosts |-> job[j].max_hosts]
  /\ discover_results' = << >>
  /\ job' = [job EXCEPT ![j].at = "sweep"]
  /\ UNCHANGED <<dh, pinged>>
  /\ UNCHANGED notDisc

\* one turn of the loop: _ping_once on the next private host; an exception
\* out of it ends the job in "finally"
RunDiscoveryPing(j, raised) ==
  /\ job[j].at = "sweep"
  /\ ~SweepOver(j)
  /\ LET n == NextHost(HostsOf(j), job[j].pos)
     IN /\ pinged' = pinged \cup {HostsOf(j)[n].ip}
        /\ IF raised
           THEN Finally(j)
           ELSE /\ job' = [job EXCEPT ![j].count = @ + 1, ![j].pos = n]
                /\ UNCHANGED discover_job
  /\ UNCHANGED <<discover_results, dh>>
  /\ UNCHANGED notDisc

\* after the loop: read the neighbor table, store the deduplicated rows and
\* emit them; an exception out of the read ends the job in "finally"
RunDiscoveryRead(j, table, raised) ==
  /\ job[j].at = "sweep"
  /\ SweepOver(j)
  /\ IF raised
     THEN /\ Finally(j)
          /\ UNCHANGED discover_results
     ELSE /\ discover_results' = Dedupe(table, {})
          /\ job' = [job EXCEPT ![j].at = "emit"]
          /\ UNCHANGED discover_job
  /\ UNCHANGED <<dh, pinged>>
  /\ UNCHANGED notDisc

\* socketio.emit has returned or raised: "finally"
RunDiscoveryFinally(j) ==
  /\ job[j].at = "emit"
  /\ Finally(j)
  /\ UNCHANGED <<discover_results, dh, pinged>>
  /\ UNCHANGED notDisc

NextDisc ==
  \/ \E h \in Starters, cidr \in CidrInputs, max_hosts \in MaxHostsInputs :
       DiscoverStart(h, cidr, max_hosts)
  \/ \E h \in Starters, nets \in LocalNetInputs : DiscoverStartDetected(h, nets)
  \/ \E j \in JobIds : RunDiscoveryBegin(j)
  \/ \E j \in JobIds, raised \in BOOLEAN : RunDiscoveryPing(j, raised)
  \/ \E j \in JobIds, table \in DiscoveredTables, raised \in BOOLEAN :
       RunDiscoveryRead(j, table, raised)
  \/ \E j \in JobIds : RunDiscoveryFinally(j)

\* no start request is being served and no job is spawned or sweeping
Quiet ==
  /\ \A h \in Starters : dh[h].at = "idle"
  /\ \A j \in JobIds : job[j].at \in {"none", "done"}

\* one sweep after the other: a client that sends a start request only when
\* the job before it has ended
NextSweep ==
  \/ \E h \in Starters, cidr \in SweepCidrInputs,
          max_hosts \in MaxHostsInputs :
       Quiet /\ DiscoverStart(h, cidr, max_hosts)
  \/ \E h \in Starters : Quiet /\ DiscoverStart(h, NoCidr, 0)
  \/ \E h \in Starters, nets \in LocalNetInputs : DiscoverStartDetected(h, nets)
  \/ \E j \in JobIds : RunDiscoveryBegin(j)
  \/ \E j \in JobIds, raised \in BOOLEAN : RunDiscoveryPing(j, raised)
  \/ \E j \in JobIds, table \in DiscoveredTables, raised \in BOOLEAN :
       RunDiscoveryRead(j, table, raised)
  \/ \E j \in JobIds : RunDiscoveryFinally(j)

(***************************************************************************)
(* Part 4: _parse_router_leases_text                                       *)
(***************************************************************************)
\* ln.split(sep): the fields of a line, empty ones kept
RECURSIVE SplitOn(_, _)
SplitOn(line, sep) ==
  IF \A i \in 1..Len(line) : line[i] # sep THEN <<line>>
  ELSE LET i == CHOOSE k \in 1..Len(line) :
                  line[k] = sep /\ \A m \in 1..(k - 1) : line[m] # sep
       IN <<SubSeq(line, 1, i - 1)>>
            \o SplitOn(SubSeq(line, i + 1, Len(line)), sep)

\* re.split(r"\s+", ln) on a stripped line
SplitWs(line) == SelectSeq(SplitOn(line, SP), LAMBDA f : f # << >>)

\* str.lower() on a field
LowerField(f) == [i \in 1..Len(f) |-> Lower(f[i])]

\* [ln.strip() for ln in text.strip().splitlines() if ln.strip()]
Lines(text) ==
  SelectSeq([i \in 1..Len(text) |-> Strip(text[i])], LAMBDA ln : ln # << >>)

\* parts[0].isdigit()
IsDigits(f) == Len(f) = 1 /\ f[1] \in DigitTokens

\* re.match(r"^[0-9a-fA-F:]{17}$", f)
IsMac17(f) == Len(f) = 1 /\ f[1] \in MacTokens

\* re.match(r"^\d{1,3}(?:\.\d{1,3}){3}$", f)
IsIpv4(f) == Len(f) = 1 /\ f[1] \in IpTokens

\* the test of the OpenWrt heuristic on one line
OpenWrtHit(ln) ==
  LET parts == SplitWs(ln)
  IN Len(parts) >= 4 /\ IsDigits(parts[1]) /\ IsMac17(parts[2])

\* the rows of a dhcp.leases text: "<expiry> <mac> <ip> <hostname> ..."
RECURSIVE OpenWrtRows(_)
OpenWrtRows(lines) ==
  IF lines = << >> THEN << >>
  ELSE LET parts == SplitWs(Head(lines))
       IN IF Len(parts) < 4 \/ ~IsIpv4(parts[3])
          THEN OpenWrtRows(Tail(lines))
          ELSE << [ip |-> parts[3],
                   mac |-> NormalizeMac(parts[2]),
                   hostname |-> IF parts[4] = <<"*">> THEN NoName
                                ELSE parts[4],
                   source |-> "router_openwrt_dhcp_leases"] >>
                 \o OpenWrtRows(Tail(lines))

\* header.index(name), 0 where the code has -1
IndexOf(header, name) ==
  IF \E i \in 1..Len(header) : header[i] = name
  THEN CHOOSE i \in 1..Len(header) :
         header[i] = name /\ \A m \in 1..(i - 1) : header[m] # name
  ELSE 0

\* col_idx(*names): the column of the first name the header has
RECURSIVE ColIdx(_, _)
ColIdx(header, names) ==
  IF names = << >> THEN 0
  ELSE IF IndexOf(header, Head(names)) # 0 THEN IndexOf(header, Head(names))
  ELSE ColIdx(header, Tail(names))

\* cols[i] if the line has that column, else ""
Col(cols, i) == IF i >= 1 /\ i <= Len(cols) THEN cols[i] ELSE << >>

\* re.search of an address anywhere in the line: the first token of the set
FindToken(ln, tokens) ==
  IF \E i \in 1..Len(ln) : ln[i] \in tokens
  THEN << ln[CHOOSE i \in 1..Len(ln) :
               ln[i] \in tokens /\ \A m \in 1..(i - 1) : ln[m] \notin tokens] >>
  ELSE << >>

\* the rows of a CSV text from its first data line on
RECURSIVE CsvRows(_, _, _, _)
CsvRows(lines, ip_i, mac_i, host_i) ==
  IF lines = << >> THEN << >>
  ELSE LET ln == Head(lines)
           split == SplitOn(ln, COMMA)
           cols == [i \in 1..Len(split) |-> Strip(split[i])]
           ip0 == Col(cols, ip_i)
           mac0 == Col(cols, mac_i)
           ip == IF ip0 = << >> THEN FindToken(ln, IpTokens) ELSE ip0
           mac == IF mac0 = << >> THEN FindToken(ln, MacTokens) ELSE mac0
       IN IF ip = << >> /\ mac = << >>
          THEN CsvRows(Tail(lines), ip_i, mac_i, host_i)
          ELSE << [ip |-> ip, mac |-> NormalizeMac(mac),
                   hostname |-> Col(cols, host_i),
                   source |-> "router_csv"] >>
                 \o CsvRows(Tail(lines), ip_i, mac_i, host_i)

\* _parse_router_leases_text; the texts are comma separated
ParseRouterLeasesText(text) ==
  LET lines == Lines(text)
      first == IF Len(lines) < 25 THEN Len(lines) ELSE 25
      openwrt_hits == Cardinality({i \in 1..first : OpenWrtHit(lines[i])})
  IN IF lines = << >> THEN << >>
     ELSE IF openwrt_hits >= 2 THEN OpenWrtRows(lines)
     ELSE LET split == SplitOn(lines[1], COMMA)
              header == [i \in 1..Len(split) |-> LowerField(Strip(split[i]))]
              has_header ==
                \E i \in 1..Len(header) :
                  header[i] \in { <<"ip">>, <<"address">>, <<"ipv4">>,
                                  <<"mac">>, <<"hostname">>, <<"name">> }
          IN CsvRows(IF has_header THEN Tail(lines) ELSE lines,
                     ColIdx(header, << <<"ip">>, <<"address">>, <<"ipv4">> >>),
                     ColIdx(header, << <<"mac">>, <<"mac", SP, "address">>,
                                       <<"mac_address">> >>),
                     ColIdx(header, << <<"hostname">>, <<"name">>,
                                       <<"device">>, <<"client">> >>))

(***************************************************************************)
(* Part 4: _merge_devices                                                  *)
(***************************************************************************)
\* merged_by_ip[ip] = row: a dict keeps the place of a key it already has
Upsert(rows, row) ==
  IF \E i \in 1..Len(rows) : rows[i].ip = row.ip
  THEN [i \in 1..Len(rows) |-> IF rows[i].ip = row.ip THEN row ELSE rows[i]]
  ELSE Append(rows, row)

\* the first loop: one row per non-empty stripped ip of the neighbor table,
\* the last neighbor row of an ip wins.  The fields iface and state are
\* copied from the neighbor row and nothing reads them; they are left out.
RECURSIVE MergeNeigh(_, _)
MergeNeigh(neigh, rows) ==
  IF neigh = << >> THEN rows
  ELSE LET ip == Strip(Head(neigh).ip)
       IN IF ip = NoIp THEN MergeNeigh(Tail(neigh), rows)
          ELSE MergeNeigh(Tail(neigh),
                 Upsert(rows, [ip |-> ip,
                               mac |-> NormalizeMac(Head(neigh).mac),
                               hostname |-> NoName,
                               sources |-> <<"neighbor">>]))

\* ",".join(sorted(set(names))): the names of the set in string order
SortedSources(names) ==
  SelectSeq(<<"neighbor", "router_csv", "router_openwrt_dhcp_leases">>,
            LAMBDA n : n \in names)

\* the "fill missing fields" branch for a lease whose ip has a row
FillFromLease(cur, l) ==
  [cur EXCEPT
     !.mac = IF cur.mac = NoMac /\ l.mac # NoMac
             THEN NormalizeMac(l.mac) ELSE @,
     !.hostname = IF cur.hostname = NoName /\ l.hostname # NoName
                  THEN l.hostname ELSE @,
     !.sources = SortedSources({cur.sources[i] : i \in 1..Len(cur.sources)}
                                 \cup {l.source})]

\* the second loop: a lease adds a row for a new ip or fills the row of a
\* known one
RECURSIVE MergeLeases(_, _)
MergeLeases(leases, rows) ==
  IF leases = << >> THEN rows
  ELSE LET l == Head(leases)
           ip == Strip(l.ip)
       IN IF ip = NoIp THEN MergeLeases(Tail(leases), rows)
          ELSE IF \E i \in 1..Len(rows) : rows[i].ip = ip
          THEN MergeLeases(Tail(leases),
                 [i \in 1..Len(rows) |->
                    IF rows[i].ip = ip THEN FillFromLease(rows[i], l)
                    ELSE rows[i]])
          ELSE MergeLeases(Tail(leases),
                 Append(rows, [ip |-> ip, mac |-> NormalizeMac(l.mac),
                               hostname |-> l.hostname,
                               sources |-> <<l.source>>]))

\* ip_key: the modelled addresses are private, so their order is int(addr)
IpKey(ip) ==
  IF ip = <<"192.168.1.1">> THEN 1
  ELSE IF ip = <<"192.168.1.254">> THEN 254
  ELSE 0

\* sorted(rows, key=ip_key): a stable sort
RECURSIVE SortByIp(_)
SortByIp(rows) ==
  IF rows = << >> THEN << >>
  ELSE LET rest == SortByIp(Tail(rows))
           before == SelectSeq(rest, LAMBDA r : IpKey(r.ip) < IpKey(Head(rows).ip))
           after == SelectSeq(rest, LAMBDA r : IpKey(r.ip) >= IpKey(Head(rows).ip))
       IN before \o <<Head(rows)>> \o after

MergeDevices(neigh, leases) ==
  SortByIp(MergeLeases(leases, MergeNeigh(neigh, << >>)))

(***************************************************************************)
(* Part 4: the lease import and the readers                                *)
(***************************************************************************)
\* an import that appends to the stored rows
M_LeasesImport_Append(text) ==
  /\ Len(imports) < MaxImports
  /\ imports' = Append(imports, text)
  /\ router_leases' = router_leases \o ParseRouterLeasesText(text)
  /\ UNCHANGED lq
  /\ UNCHANGED notLease

\* mutant: an import stores whatever was parsed, no row included
M_LeasesImport_Always(text) ==
  /\ Len(imports) < MaxImports
  /\ imports' = Append(imports, text)
  /\ router_leases' = ParseRouterLeasesText(text)
  /\ UNCHANGED lq
  /\ UNCHANGED notLease

\* POST /api/router/leases/import: the text is parsed; no row is a 400 and
\* changes nothing, else the rows replace the stored ones.  The handler
\* makes no blocking call.
LeasesImport(text) ==
  /\ Len(imports) < MaxImports
  /\ imports' = Append(imports, text)
  /\ router_leases' =
       IF ParseRouterLeasesText(text) = << >> THEN router_leases
       ELSE ParseRouterLeasesText(text)
  /\ UNCHANGED lq
  /\ UNCHANGED notLease

\* the response of the import request
ImportResponse(text) ==
  IF ParseRouterLeasesText(text) = << >>
  THEN [ok |-> FALSE, code |-> 400, count |-> 0]
  ELSE [ok |-> TRUE, code |-> 200, count |-> Len(ParseRouterLeasesText(text))]

\* GET /api/router/leases
LeasesResponse == [leases |-> router_leases]

\* GET /api/devices/merged begins: it waits for the neighbor table
MergedBegin(h) ==
  /\ lq[h] = "idle"
  /\ lq' = [lq EXCEPT ![h] = "neigh"]
  /\ UNCHANGED <<router_leases, imports>>
  /\ UNCHANGED notLease

\* the response of GET /api/devices/merged once the table is read
MergedResponse(neigh) ==
  [devices |-> MergeDevices(neigh, router_leases),
   neighbor_count |-> Len(neigh),
   lease_count |-> Len(router_leases)]

\* the neighbor table is read: merge, answer
MergedEnd(h) ==
  /\ lq[h] = "neigh"
  /\ lq' = [lq EXCEPT ![h] = "idle"]
  /\ UNCHANGED <<router_leases, imports>>
  /\ UNCHANGED notLease

NextLease ==
  \/ \E text \in LeaseTexts : LeasesImport(text)
  \/ \E h \in MergeReaders : MergedBegin(h)
  \/ \E h \in MergeReaders : MergedEnd(h)

(***************************************************************************)
(* Part 5: the capture tool                                                *)
(***************************************************************************)
\* max(5, min(int(duration_seconds or 30), 300)); 0 is a missing field
ClampDuration(d) ==
  LET v == IF d = 0 THEN 30 ELSE d
      w == IF v < 300 THEN v ELSE 300
  IN IF w > 5 THEN w ELSE 5

\* _tshark_processes.get(capture_id): the entries of an id, at most one
EntriesOf(id) == {e \in tshark_processes : e.id = id}

\* number of processes created so far
NumProcs == Cardinality({p \in Pids : procState[p] # "none"})

\* POST /api/capture/start up to _list_interfaces: without tshark on the
\* path the answer is a 400
CaptureStartBegin(h, tshark, interface, duration) ==
  /\ ch[h].at = "idle"
  /\ ch' = IF tshark
           THEN [ch EXCEPT ![h] = [at |-> "interfaces", iface |-> Strip(interface),
                                   duration |-> ClampDuration(duration)]]
           ELSE ch
  /\ UNCHANGED <<tshark_processes, procState, signalled, now>>
  /\ UNCHANGED notCap

\* the response of a start request that ends before _list_interfaces
CaptureStartBeginResponse(tshark) ==
  IF tshark THEN [ok |-> TRUE, code |-> 0, capture_id |-> << >>]
  ELSE [ok |-> FALSE, code |-> 400, capture_id |-> << >>]

\* a check that rejects every name the enumeration does not have
M_UnknownInterface_Strict(h, interfaces) ==
  ch[h].iface # NoIface /\ ch[h].iface \notin interfaces

\* "if iface and interfaces and iface not in interfaces"
UnknownInterface(h, interfaces) ==
  ch[h].iface # NoIface /\ interfaces # {} /\ ch[h].iface \notin interfaces

\* the response of a start request after _list_interfaces
CaptureStartResponse(h, interfaces, t, popen_ok) ==
  IF UnknownInterface(h, interfaces)
  THEN [ok |-> FALSE, code |-> 400, capture_id |-> << >>]
  ELSE IF ~popen_ok THEN [ok |-> FALSE, code |-> 500, capture_id |-> << >>]
  ELSE [ok |-> TRUE, code |-> 200, capture_id |-> CaptureIdOf(t)]

\* the interfaces are enumerated: an unknown interface is a 400; else the
\* file name is taken from the clock and the process is created (a Popen
\* that raises is a 500) and registered under its capture id
CaptureStartEnd(h, interfaces, t, popen_ok) ==
  /\ ch[h].at = "interfaces"
  /\ ch' = [ch EXCEPT ![h] = IdleCapture]
  /\ IF UnknownInterface(h, interfaces)
     THEN UNCHANGED <<tshark_processes, procState, now>>
     ELSE /\ t >= now
          /\ now' = t
          /\ IF popen_ok
             THEN /\ NumProcs < MaxCaptures
                  /\ procState' = [procState EXCEPT ![NumProcs + 1] = "alive"]
                  /\ tshark_processes' =
                       (tshark_processes \ EntriesOf(CaptureIdOf(t)))
                         \cup { [id |-> CaptureIdOf(t), pid |-> NumProcs + 1,
                                 interface |-> ch[h].iface,
                                 duration_seconds |-> ch[h].duration] }
             ELSE UNCHANGED <<tshark_processes, procState>>
  /\ UNCHANGED signalled
  /\ UNCHANGED notCap

\* the response of POST /api/capture/stop
CaptureStopResponse(capture_id) ==
  IF EntriesOf(Strip(capture_id)) = {}
  THEN [ok |-> FALSE, code |-> 404]
  ELSE [ok |-> TRUE, code |-> 200]

\* the processes a stop request calls terminate() on: the process of the
\* entry of the id, if poll() finds it alive
StopTargets(capture_id) ==
  { e.pid : e \in { x \in EntriesOf(Strip(capture_id)) :
                      procState[x.pid] = "alive" } }

\* a stop that pops the entry of the id
M_CaptureStop_Remove(capture_id, raised) ==
  /\ signalled' = IF raised THEN signalled
                  ELSE signalled \cup StopTargets(capture_id)
  /\ tshark_processes' = tshark_processes \ EntriesOf(Strip(capture_id))
  /\ UNCHANGED <<procState, ch, now>>
  /\ UNCHANGED notCap

\* POST /api/capture/stop: terminate() on the process of a known id if
\* poll() finds it alive; a terminate() that raises is passed over
CaptureStop(capture_id, raised) ==
  /\ signalled' = IF raised THEN signalled
                  ELSE signalled \cup StopTargets(capture_id)
  /\ UNCHANGED <<tshark_processes, procState, ch, now>>
  /\ UNCHANGED notCap

\* a capture process ends: its duration is over or it obeys the signal
ProcExit(p) ==
  /\ procState[p] = "alive"
  /\ procState' = [procState EXCEPT ![p] = "exited"]
  /\ UNCHANGED <<tshark_processes, signalled, ch, now>>
  /\ UNCHANGED notCap

NextCap ==
  \/ \E h \in CaptureStarters, tshark \in BOOLEAN,
          interface \in CaptureIfaceInputs, duration \in DurationInputs :
       CaptureStartBegin(h, tshark, interface, duration)
  \/ \E h \in CaptureStarters, interfaces \in InterfaceSets, t \in Ticks,
          popen_ok \in BOOLEAN :
       CaptureStartEnd(h, interfaces, t, popen_ok)
  \/ \E capture_id \in CaptureIdInputs, raised \in BOOLEAN :
       CaptureStop(capture_id, raised)
  \/ \E p \in Pids : ProcExit(p)

(***************************************************************************)
(* Part 6: the process proxies                                             *)
(***************************************************************************)
\* _HOST_RE.match(host): two or more characters, the first and the last
\* alphanumeric, dots and dashes between them (the bracketed form needs a
\* "[", which no input here has)
HostReMatch(host) ==
  /\ Len(host) >= 2
  /\ host[1] \in AlnumTokens
  /\ host[Len(host)] \in AlnumTokens
  /\ \A i \in 2..(Len(host) - 1) : host[i] \in AlnumTokens \cup {DOT, DASH}

\* _validate_host: the stripped host, or ValueError
ValidateHost(host) ==
  LET stripped == Strip(host)
  IN IF stripped = NoHost THEN [ok |-> FALSE, host |-> NoHost]
     ELSE IF stripped \in IpLiterals THEN [ok |-> TRUE, host |-> stripped]
     ELSE IF ~HostReMatch(stripped) THEN [ok |-> FALSE, host |-> NoHost]
     ELSE [ok |-> TRUE, host |-> stripped]

\* the timeout_s the callers of _run_command pass
CommandTimeout(op) ==
  CASE op = "ping" -> 20
    [] op = "traceroute" -> 45
    [] op = "ping_once" -> 2
    [] OTHER -> 10

\* the answer to a request, or the value a function returns to its caller:
\* raised tells that an exception left the function, status is the HTTP
\* status of a route (0 for a function), exit_code is the code reported
Reply(prog, op, raw, status, raised, outcome, exit_code) ==
  [prog |-> prog, op |-> op, raw |-> raw, status |-> status,
   raised |-> raised, outcome |-> outcome, exit_code |-> exit_code]

\* a handler that hands a command to subprocess.run and waits for it
Invoke(h, prog, op, raw, host, timeout) ==
  /\ px' = [px EXCEPT ![h] = [at |-> "wait", prog |-> prog, op |-> op,
                              raw |-> raw, host |-> host,
                              timeout |-> timeout]]
  /\ invoked' = invoked \cup {[prog |-> prog, op |-> op, host |-> host,
                                timeout |-> timeout]}
  /\ UNCHANGED replies

\* a request that is answered without a command
Answer(r) ==
  /\ replies' = replies \cup {r}
  /\ UNCHANGED <<px, invoked>>

\* POST /api/ping and POST /api/traceroute of app.py up to the call of
\* subprocess.run: the ValueError of _validate_host leaves the route, which
\* the framework answers with status 500
ApiProxy(h, op, host) ==
  /\ px[h].at = "idle"
  /\ nproxy < MaxProxyCalls
  /\ nproxy' = nproxy + 1
  /\ LET v == ValidateHost(host)
     IN IF v.ok
        THEN Invoke(h, "app", op, host, v.host, CommandTimeout(op))
        ELSE Answer(Reply("app", op, host, 500, TRUE, "rejected", 0))
  /\ UNCHANGED notProxy

\* _ping_once, _list_neighbor_devices, _get_default_gateway_ip up to the
\* call of subprocess.run
RunCommandBegin(h, op) ==
  /\ px[h].at = "idle"
  /\ nproxy < MaxProxyCalls
  /\ nproxy' = nproxy + 1
  /\ Invoke(h, "app", op, NoHost, NoHost, CommandTimeout(op))
  /\ UNCHANGED notProxy

\* GET /api/ping of server.py up to the call of subprocess.run: only a
\* blank ip is turned down, and subprocess.run gets no timeout
ServerPing(h, ip) ==
  /\ px[h].at = "idle"
  /\ nproxy < MaxProxyCalls
  /\ nproxy' = nproxy + 1
  /\ IF Strip(ip) = NoHost
     THEN Answer(Reply("server", "ping", ip, 400, FALSE, "rejected", 0))
     ELSE Invoke(h, "server", "ping", ip, Strip(ip), 0)
  /\ UNCHANGED notProxy

\* the command does not end by itself
ProcHang(h) ==
  /\ px[h].at = "wait"
  /\ px' = [px EXCEPT ![h].at = "hung"]
  /\ UNCHANGED <<invoked, replies, nproxy>>
  /\ UNCHANGED notProxy

\* the exit code a command that ends reports
ExitCode(outcome) ==
  CASE outcome = "exit0" -> 0
    [] outcome = "exit1" -> 1
    [] outcome = "missing" -> 127
    [] OTHER -> 124

\* subprocess.run returns or raises: _run_command turns FileNotFoundError
\* into (127, text), _ping_unix lets it leave the route
ProcEnd(h, outcome) ==
  /\ px[h].at = "wait"
  /\ px' = [px EXCEPT ![h] = IdleProxy]
  /\ replies' = replies \cup
       { IF px[h].prog = "server" /\ outcome = "missing"
         THEN Reply("server", px[h].op, px[h].raw, 500, TRUE, outcome, 0)
         ELSE Reply(px[h].prog, px[h].op, px[h].raw,
                    IF px[h].op \in InternalOps THEN 0 ELSE 200,
                    FALSE, outcome, ExitCode(outcome)) }
  /\ UNCHANGED <<invoked, nproxy>>
  /\ UNCHANGED notProxy

\* subprocess.run(timeout=timeout_s) raises TimeoutExpired once a timeout
\* that was passed has run out; _run_command returns (124, text)
ProcTimeout(h) ==
  /\ px[h].at = "hung"
  /\ px[h].timeout > 0
  /\ px' = [px EXCEPT ![h] = IdleProxy]
  /\ replies' = replies \cup
       { Reply(px[h].prog, px[h].op, px[h].raw,
               IF px[h].op \in InternalOps THEN 0 ELSE 200,
               FALSE, "timeout", ExitCode("timeout")) }
  /\ UNCHANGED <<invoked, nproxy>>
  /\ UNCHANGED notProxy

NextProxy ==
  \/ \E h \in ProxyHandlers, op \in {"ping", "traceroute"},
          host \in HostInputs : ApiProxy(h, op, host)
  \/ \E h \in ProxyHandlers, op \in InternalOps : RunCommandBegin(h, op)
  \/ \E h \in ProxyHandlers, ip \in HostInputs : ServerPing(h, ip)
  \/ \E h \in ProxyHandlers : ProcHang(h)
  \/ \E h \in ProxyHandlers, outcome \in Outcomes : ProcEnd(h, outcome)
  \/ \E h \in ProxyHandlers : ProcTimeout(h)

(***************************************************************************)
(* Part 7: the lock of CaptureState                                        *)
(***************************************************************************)
\* AsyncSniffer objects constructed so far, and start() calls under way
NumLkCreated == Cardinality({s \in SnifferIds : lk_thread[s] # "absent"})

StartsUnderWay ==
  Cardinality({c \in Callers : req[c].at # "idle" /\ req[c].op = "start"})

\* a request thread enters a method and reaches its "with self._lock"
LockCall(c, op) ==
  /\ req[c].at = "idle"
  /\ op = "start" => NumLkCreated + StartsUnderWay < MaxSniffers
  /\ req' = [req EXCEPT ![c] = [at |-> "acquire", op |-> op]]
  /\ UNCHANGED <<lock, snf, lk_running, lk_sniffer, lk_thread, lk_target>>
  /\ UNCHANGED notLock

\* threading.Lock.acquire(): granted only while no thread holds the lock,
\* the calling thread included
ReqAcquire(c) ==
  /\ req[c].at = "acquire"
  /\ lock = NoHolder
  /\ lock' = Req(c)
  /\ req' = [req EXCEPT ![c].at = "locked"]
  /\ UNCHANGED <<snf, lk_running, lk_sniffer, lk_thread, lk_target>>
  /\ UNCHANGED notLock

\* the block of start(): sniffer.start() starts the thread or raises, and
\* does not wait for a frame; "with" releases the lock either way
StartBody(c) ==
  /\ req[c].at = "locked"
  /\ req[c].op = "start"
  /\ IF lk_running
     THEN UNCHANGED <<lk_running, lk_sniffer, lk_thread>>
     ELSE /\ lk_sniffer' = NumLkCreated + 1
          /\ \E started \in BOOLEAN :
               /\ lk_thread' = [lk_thread EXCEPT ![NumLkCreated + 1] =
                                  IF started THEN "live" ELSE "created"]
               /\ lk_running' = started
  /\ lock' = NoHolder
  /\ req' = [req EXCEPT ![c] = IdleReq]
  /\ UNCHANGED <<snf, lk_target>>
  /\ UNCHANGED notLock

\* mutant: stop() keeps the lock while it stops the sniffer
M_StopBody_KeepLock(c) ==
  /\ req[c].at = "locked"
  /\ req[c].op = "stop"
  /\ lk_target' = [lk_target EXCEPT ![c] = lk_sniffer]
  /\ lk_sniffer' = 0
  /\ lk_running' = FALSE
  /\ IF lk_sniffer = 0
     THEN /\ lock' = NoHolder
          /\ req' = [req EXCEPT ![c] = IdleReq]
     ELSE /\ UNCHANGED lock
          /\ req' = [req EXCEPT ![c].at = "stop"]
  /\ UNCHANGED <<snf, lk_thread>>
  /\ UNCHANGED notLock

\* the block of stop(): take the handle, clear the fields, release
StopBody(c) ==
  /\ req[c].at = "locked"
  /\ req[c].op = "stop"
  /\ lk_target' = [lk_target EXCEPT ![c] = lk_sniffer]
  /\ lk_sniffer' = 0
  /\ lk_running' = FALSE
  /\ lock' = NoHolder
  /\ req' = [req EXCEPT ![c] =
               IF lk_sniffer = 0 THEN IdleReq ELSE [@ EXCEPT !.at = "stop"]]
  /\ UNCHANGED <<snf, lk_thread>>
  /\ UNCHANGED notLock

\* sniffer.stop() outside the lock: it raises (always on a sniffer whose
\* thread is not running), or it tells the thread to end and joins it
StopCall(c, raised) ==
  /\ req[c].at = "stop"
  /\ IF raised \/ lk_thread[lk_target[c]] # "live"
     THEN /\ req' = [req EXCEPT ![c] = IdleReq]
          /\ lk_target' = [lk_target EXCEPT ![c] = 0]
          /\ UNCHANGED lk_thread
     ELSE /\ req' = [req EXCEPT ![c].at = "join"]
          /\ lk_thread' = [lk_thread EXCEPT ![lk_target[c]] = "ending"]
          /\ UNCHANGED lk_target
  /\ UNCHANGED <<lock, snf, lk_running, lk_sniffer>>
  /\ UNCHANGED notLock

\* join() returns when the sniffer thread has left the callback it was in
StopJoin(c) ==
  /\ req[c].at = "join"
  /\ snf[lk_target[c]] = "idle"
  /\ lk_thread' = [lk_thread EXCEPT ![lk_target[c]] = "stopped"]
  /\ req' = [req EXCEPT ![c] = IdleReq]
  /\ lk_target' = [lk_target EXCEPT ![c] = 0]
  /\ UNCHANGED <<lock, snf, lk_running, lk_sniffer>>
  /\ UNCHANGED notLock

\* the blocks of set_filter(), get_status() and get_packets()
QueryBody(c) ==
  /\ req[c].at = "locked"
  /\ req[c].op \in {"set_filter", "get_status", "get_packets"}
  /\ lock' = NoHolder
  /\ req' = [req EXCEPT ![c] = IdleReq]
  /\ UNCHANGED <<snf, lk_running, lk_sniffer, lk_thread, lk_target>>
  /\ UNCHANGED notLock

\* a frame with an IP header reaches _on_packet, which calls _packet_ok
OnPacketEnter(s) ==
  /\ lk_thread[s] = "live"
  /\ snf[s] = "idle"
  /\ snf' = [snf EXCEPT ![s] = "ok_acquire"]
  /\ UNCHANGED <<lock, req, lk_running, lk_sniffer, lk_thread, lk_target>>
  /\ UNCHANGED notLock

\* the sniffer thread gets the lock, in _packet_ok or for the append
SnfAcquire(s) ==
  /\ snf[s] \in {"ok_acquire", "append_acquire"}
  /\ lock = NoHolder
  /\ lock' = Snf(s)
  /\ snf' = [snf EXCEPT ![s] =
               IF snf[s] = "ok_acquire" THEN "ok_locked" ELSE "append_locked"]
  /\ UNCHANGED <<req, lk_running, lk_sniffer, lk_thread, lk_target>>
  /\ UNCHANGED notLock

\* _packet_ok reads the filter and releases; the frame passes or not
PacketOkRelease(s, passes) ==
  /\ snf[s] = "ok_locked"
  /\ lock' = NoHolder
  /\ snf' = [snf EXCEPT ![s] = IF passes THEN "append_acquire" ELSE "idle"]
  /\ UNCHANGED <<req, lk_running, lk_sniffer, lk_thread, lk_target>>
  /\ UNCHANGED notLock

\* the second block of _on_packet: append, count, release
AppendRelease(s) ==
  /\ snf[s] = "append_locked"
  /\ lock' = NoHolder
  /\ snf' = [snf EXCEPT ![s] = "idle"]
  /\ UNCHANGED <<req, lk_running, lk_sniffer, lk_thread, lk_target>>
  /\ UNCHANGED notLock

\* the steps of the calls and callbacks that are under way
LockProgress ==
  \/ \E c \in Callers : ReqAcquire(c)
  \/ \E c \in Callers : StartBody(c)
  \/ \E c \in Callers : StopBody(c)
  \/ \E c \in Callers, raised \in BOOLEAN : StopCall(c, raised)
  \/ \E c \in Callers : StopJoin(c)
  \/ \E c \in Callers : QueryBody(c)
  \/ \E s \in SnifferIds : SnfAcquire(s)
  \/ \E s \in SnifferIds, passes \in BOOLEAN : PacketOkRelease(s, passes)
  \/ \E s \in SnifferIds : AppendRelease(s)

NextLock ==
  \/ \E c \in Callers, op \in LockOps : LockCall(c, op)
  \/ \E s \in SnifferIds : OnPacketEnter(s)
  \/ LockProgress

(***************************************************************************)
(* Specifications                                                          *)
(***************************************************************************)
Spec == Init /\ [][Next]_vars

SpecMitm == Init /\ [][NextMitm]_mitmVars

SpecGateway == Init /\ [][NextGateway]_mitmVars

SpecDisc == Init /\ [][NextDisc]_discVars

SpecSweep == Init /\ [][NextSweep]_discVars

SpecLease == Init /\ [][NextLease]_leaseVars

SpecCap == Init /\ [][NextCap]_capVars

SpecProxy == Init /\ [][NextProxy]_proxyVars

\* IP protocol numbers: ICMP, TCP, UDP and one the table does not have
ProtoNumbers == {0, 1, 6, 17}

\* the frames of a capture on a network with many protocols: one frame
\* with an IP header per protocol number, and one without an IP header
ProtoFrames ==
  { [ip |-> TRUE, src |-> IpA, dst |-> IpB, proto |-> n, len |-> 60] :
      n \in ProtoNumbers }
  \cup { [ip |-> FALSE, src |-> NoIp, dst |-> NoIp, proto |-> 0, len |-> 60] }

\* captures on the default interface that receive these frames
NextNormalizer ==
  \/ \E ip \in IpInputs : StartFresh(ip, "None")
  \/ \E c \in Callers : StopLocked(c)
  \/ \E c \in Callers : StopSniffer(c)
  \/ \E s \in SnifferIds, pkt \in ProtoFrames : OnPacketNotIp(s, pkt)
  \/ \E s \in SnifferIds, pkt \in ProtoFrames : OnPacketCheck(s, pkt)
  \/ \E s \in SnifferIds : OnPacketAppend(s)

SpecNormalizer == Init /\ [][NextNormalizer]_vars

(***************************************************************************)
(* Part 8: mask_email                                                      *)
(***************************************************************************)
\* re.match(email_regex, addr): one or more user characters, "@", one or
\* more label characters, a dot, one or more of the rest; "$" matches at
\* the end of the string and also just before a newline that ends it
EmailBody(addr, n) ==
  \E i \in 2..n : \E j \in (i + 2)..(n - 1) :
    /\ \A k \in 1..(i - 1) : addr[k] \in UserChars
    /\ addr[i] = AT
    /\ \A k \in (i + 1)..(j - 1) : addr[k] \in LabelChars
    /\ addr[j] = DOT
    /\ \A k \in (j + 1)..n : addr[k] \in RestChars

EmailReMatch(addr) ==
  \E n \in { Len(addr), Len(addr) - 1 } :
    /\ n >= 0
    /\ n < Len(addr) => addr[Len(addr)] = NL
    /\ EmailBody(addr, n)

\* "*" * n
Stars(n) == [k \in 1..n |-> STAR]

\* the branches on len(user_part)
MaskedUser(user_part) ==
  IF Len(user_part) <= 1 THEN Stars(Len(user_part))
  ELSE IF Len(user_part) <= 3
       THEN <<user_part[1]>> \o Stars(Len(user_part) - 1)
       ELSE <<user_part[1], STAR, STAR, STAR, user_part[Len(user_part)]>>

\* mask_email(addr): (is_valid, masked_email_or_error); unpacking the
\* result of split('@') into two names raises unless there are two parts
mask_email(addr) ==
  IF ~EmailReMatch(addr) THEN InvalidEmailFormat
  ELSE LET parts == SplitOn(addr, AT)
       IN IF Len(parts) # 2 THEN ErrorProcessingEmail
          ELSE [valid |-> TRUE,
                text |-> MaskedUser(parts[1]) \o <<AT>> \o parts[2]]

\* a call of mask_email returns
MaskEmailCall ==
  /\ masked = NoResult
  /\ masked' = mask_email(email)
  /\ UNCHANGED <<email, notMask>>

NextMask == MaskEmailCall

\* the calls of mask_email, one per argument
InitMaskEmail ==
  /\ InitCaptureState
  /\ InitMitm
  /\ InitDisc
  /\ InitLease
  /\ InitCapture
  /\ InitProxy
  /\ InitLock
  /\ email \in EmailInputs
  /\ masked = NoResult

SpecMask == InitMaskEmail /\ [][NextMask]_maskVars

SpecLock == Init /\ [][NextLock]_lockVars

\* the state the queries read: server.py and app.py are two programs, and
\* within app.py the MITM globals and the discovery globals are written by
\* different functions; a behaviour runs one of the three from the initial
\* state of the others
queryVars == <<vars, mitmVars, discVars>>

\* the frames a capture delivers while the queries are watched: one that
\* carries IP and one that does not
QueryFrames == { f \in Frames : f.proto \in {0, 6} }

\* CaptureState on the default interface
NextCaptureState ==
  \/ \E ip \in IpInputs : StartRunning(ip, "None")
  \/ \E ip \in IpInputs : StartFresh(ip, "None")
  \/ \E c \in Callers : StopLocked(c)
  \/ \E c \in Callers : StopSniffer(c)
  \/ \E ip \in IpInputs : SetFilter(ip)
  \/ GetStatusCall
  \/ \E since_id \in SinceInputs, limit \in LimitInputs :
       GetPacketsCall(since_id, limit)
  \/ \E s \in SnifferIds, pkt \in QueryFrames : OnPacketNotIp(s, pkt)
  \/ \E s \in SnifferIds, pkt \in QueryFrames : OnPacketCheck(s, pkt)
  \/ \E s \in SnifferIds : OnPacketAppend(s)

NextQueries ==
  \/ InitMitm /\ InitDisc /\ NextCaptureState
  \/ InitCaptureState /\ InitDisc /\ NextMitm
  \/ InitCaptureState /\ InitMitm /\ NextDisc

SpecQueries == Init /\ [][NextQueries]_queryVars

\* the next step of job j, whichever it is
JobStep(j) ==
  \/ RunDiscoveryBegin(j)
  \/ \E raised \in BOOLEAN : RunDiscoveryPing(j, raised)
  \/ \E table \in DiscoveredTables, raised \in BOOLEAN :
       RunDiscoveryRead(j, table, raised)
  \/ RunDiscoveryFinally(j)

\* the event loop runs every spawned green thread, and every blocking call
\* of the job (a ping, the neighbor read, an emit) returns or raises: the
\* next step of a job is taken in the end
JobFairness == \A j \in JobIds : WF_discVars(JobStep(j))

\* concurrent start requests that leave max_hosts out, and the jobs
NextLive ==
  \/ \E h \in Starters, cidr \in CidrInputs : DiscoverStart(h, cidr, 0)
  \/ \E h \in Starters, nets \in LocalNetInputs : DiscoverStartDetected(h, nets)
  \/ \E j \in JobIds : JobStep(j)

SpecDiscLive == Init /\ [][NextLive]_discVars /\ JobFairness

(***************************************************************************)
(* Properties of CaptureState                                              *)
(***************************************************************************)
Min(a, b) == IF a < b THEN a ELSE b

Range(q) == {q[i] : i \in 1..Len(q)}

StrictlyIncreasing(ids) ==
  \A i \in 1..Len(ids) : \A j \in 1..Len(ids) : i < j => ids[i] < ids[j]

IdsOf(q) == [i \in 1..Len(q) |-> q[i].id]

\* the last n elements of q, n <= Len(q)
Suffix(q, n) == [i \in 1..n |-> q[Len(q) - n + i]]

\* C1: at most one sniffer that can still deliver frames to the buffer
\* exists at any time, whatever the interleaving of start(), stop() and
\* set_filter().
C1_AtMostOneLiveSniffer == Cardinality(LiveSniffers) <= 1

\* C2: for every reachable buffer and every since_id and limit >= 1,
\* get_packets returns no row with id <= since_id, returns ids in strictly
\* increasing order, and returns exactly the min(limit, k) rows with the
\* largest ids among the k buffered rows with id > since_id.
C2_GetPacketsWindow ==
  \A since_id \in SinceInputs : \A limit \in LimitInputs \ {0} :
    LET res == GetPackets(packets, since_id, limit)
        eligible == {p \in Range(packets) : p.id > since_id}
    IN /\ \A i \in 1..Len(res) : res[i].id > since_id
       /\ StrictlyIncreasing(IdsOf(res))
       /\ Range(res) \subseteq eligible
       /\ Len(res) = Min(limit, Cardinality(eligible))
       /\ \A p \in eligible \ Range(res) : \A r \in Range(res) : p.id < r.id

\* the buffer holds more eligible rows than the limit, so that get_packets
\* cuts its answer down to the newest row
C2_Witness ==
  /\ ncalls >= 2
  /\ Len(packets) = 2
  /\ Len(GetPackets(packets, 0, 1)) = 1
  /\ GetPackets(packets, 0, 1)[1].id = packets[2].id
  /\ GetPackets(packets, 1, 2) # GetPackets(packets, 0, 2)

\* C3: the ring buffer never holds more than its capacity, and whenever it
\* is at capacity the oldest id in it is next_id - capacity.
C3_RingBufferBound ==
  /\ Len(packets) <= MaxPackets
  /\ Len(packets) = MaxPackets => packets[1].id = next_id - MaxPackets

\* an append has evicted the oldest row
C3_Witness ==
  /\ Len(packets) = MaxPackets
  /\ Len(issued) > MaxPackets
  /\ packets[1].id > 1

\* C4: the ids in the buffer are strictly increasing in buffer order, the
\* buffer holds the rows in the order their ids were given out, and no id
\* is ever given to two rows, also after evictions.
C4_IdOrder ==
  /\ StrictlyIncreasing(IdsOf(packets))
  /\ StrictlyIncreasing(issued)
  /\ Len(packets) <= Len(issued)
  /\ IdsOf(packets) = Suffix(issued, Len(packets))

\* rows were appended by two sniffers, around a restart and an eviction
C4_Witness ==
  /\ NumCreated = 2
  /\ Len(issued) > MaxPackets
  /\ Len(session) >= 1
  /\ Len(session) < Len(issued)

\* C5: every row is appended only if it passes the filter in force when it
\* is appended: src or dst equals a non-empty filter.
C5_RetainedPassesFilter ==
  \A i \in 1..Len(session) :
    PacketOk(session[i].f, session[i].row.src, session[i].row.dst)

\* C6 as stated: the directional counters never exceed the totals, and they
\* equal a positive total only when the filter is non-empty and every frame
\* counted in the session has the filter as its src or dst.
C6_Original ==
  /\ stats.packets_in + stats.packets_out <= stats.packets_total
  /\ stats.bytes_in + stats.bytes_out <= stats.bytes_total
  /\ (/\ stats.packets_total > 0
      /\ stats.packets_in + stats.packets_out = stats.packets_total)
     => /\ filter_ip # NoIp
        /\ \A i \in 1..Len(session) :
             session[i].row.src = filter_ip \/ session[i].row.dst = filter_ip

\* C6 amended: the directional counters never exceed the totals, and they
\* equal a positive total only when every frame counted in the session was
\* appended under a non-empty filter that is its src or dst.
C6_DirectionalWithinTotal ==
  /\ stats.packets_in + stats.packets_out <= stats.packets_total
  /\ stats.bytes_in + stats.bytes_out <= stats.bytes_total
  /\ (/\ stats.packets_total > 0
      /\ \/ stats.packets_in + stats.packets_out = stats.packets_total
         \/ stats.bytes_in + stats.bytes_out = stats.bytes_total)
     => \A i \in 1..Len(session) :
          /\ session[i].f # NoIp
          /\ \/ session[i].row.src = session[i].f
             \/ session[i].row.dst = session[i].f

\* the counters are equal to the totals after the filter was cleared
C6_Witness ==
  /\ stats.packets_total >= 2
  /\ stats.packets_in + stats.packets_out = stats.packets_total
  /\ stats.bytes_in + stats.bytes_out = stats.bytes_total
  /\ filter_ip = NoIp

\* C7: with filter 10.0.0.5 in force, one TCP frame 10.0.0.5 -> 8.8.8.8 of
\* length 100 and one UDP frame 8.8.8.8 -> 10.0.0.5 of length 200 give
\* packets_total=2, bytes_total=300, packets_out=1, bytes_out=100,
\* packets_in=1, bytes_in=200: src = filter counts as out, dst = filter as in.
C7_DirectionScenario ==
  (/\ Len(session) = 2
   /\ \A i \in 1..2 : session[i].f = IpA
   /\ {[src |-> session[i].row.src, dst |-> session[i].row.dst,
        protocol |-> session[i].row.protocol,
        length |-> session[i].row.length] : i \in 1..2}
        = {[src |-> IpA, dst |-> IpB, protocol |-> "TCP", length |-> 100],
           [src |-> IpB, dst |-> IpA, protocol |-> "UDP", length |-> 200]})
  => stats = [packets_total |-> 2, bytes_total |-> 300,
              packets_out |-> 1, bytes_out |-> 100,
              packets_in |-> 1, bytes_in |-> 200]

\* C8: a start() that finds no session running (it constructs a sniffer)
\* leaves all counters at zero with no frame of the new session counted,
\* and no other step resets or decreases a counter.
C8_CountersResetOnlyByFreshStart ==
  [][/\ NumCreated' # NumCreated => (stats' = ZeroStats /\ session' = << >>)
     /\ NumCreated' = NumCreated =>
          \A k \in DOMAIN stats : stats'[k] >= stats[k]]_vars

\* a restart has reset counters that had counted frames
C8_Witness ==
  /\ NumCreated = 2
  /\ next_id > 1
  /\ stats = ZeroStats

\* C9: start() on a running session stores the stripped filter and the
\* iface and changes nothing else: counters, buffer, next_id, running flag,
\* sniffer handle and the set of sniffers stay as they are.
C9_StartWhileRunningFrame ==
  [][\A ip \in IpInputs : \A ifc \in IfaceInputs :
       StartRunning(ip, ifc) =>
         /\ filter_ip' = Strip(ip)
         /\ iface' = ifc
         /\ UNCHANGED <<stats, packets, next_id, running, sniffer,
                        snifferState>>]_vars

\* start() changed the iface of a running session that had already counted
\* a frame, and the counters were kept
C9_Witness ==
  /\ NumCreated = 1
  /\ running
  /\ Len(session) >= 1
  /\ freshIface # iface
  /\ stats.packets_total = Len(session)

\* C10 as stated: a start() that finds no session running resets the id
\* counter, and no other step resets it.
C10_Original ==
  [][/\ NumCreated' # NumCreated => next_id' = 1
     /\ NumCreated' = NumCreated => next_id' >= next_id]_vars

\* C10 amended: no step resets the id counter, a start() that finds no
\* session running included; the counter only grows, by one per append.
C10_IdCounterNeverReset ==
  [][/\ next_id' >= next_id
     /\ NumCreated' # NumCreated => next_id' = next_id
     /\ next_id' # next_id => (next_id' = next_id + 1 /\ issued' # issued)]_vars

\* a restart has kept the id counter of the earlier session
C10_Witness ==
  /\ NumCreated = 2
  /\ running
  /\ next_id > 1
  /\ session = << >>

C12_SetFilterFrame ==
  [][\A ip \in IpInputs :
       SetFilter(ip) =>
         /\ filter_ip' = Strip(ip)
         /\ Len(filter_ip') > 0 =>
              (Head(filter_ip') # SP /\ filter_ip'[Len(filter_ip')] # SP)
         /\ UNCHANGED <<packets, stats, next_id, running, sniffer,
                        snifferState, iface>>]_vars

\* a filter was set after a row that does not match it had been buffered,
\* and the row is still in the buffer
C12_Witness ==
  /\ NumCreated = 1
  /\ filter_ip = IpA
  /\ \E i \in 1..Len(packets) :
       packets[i].src # IpA /\ packets[i].dst # IpA
  /\ \A i \in 1..Len(session) : session[i].f = NoIp
  /\ stats.packets_total = Len(session)

RECURSIVE SumLengths(_)
SumLengths(q) ==
  IF q = << >> THEN 0 ELSE Head(q).row.length + SumLengths(Tail(q))

\* C13: in a session in which the filter was empty at every counted frame,
\* packets_in, packets_out, bytes_in and bytes_out are 0 while packets_total
\* is the number of frames counted and bytes_total the sum of their lengths.
C13_NoFilterNoDirection ==
  (\A i \in 1..Len(session) : session[i].f = NoIp)
  => /\ stats.packets_in = 0
     /\ stats.packets_out = 0
     /\ stats.bytes_in = 0
     /\ stats.bytes_out = 0
     /\ stats.packets_total = Len(session)
     /\ stats.bytes_total = SumLengths(session)

\* two frames were counted with no filter set: the totals have grown
C13_Witness ==
  /\ Len(session) >= 2
  /\ \A i \in 1..Len(session) : session[i].f = NoIp
  /\ filter_ip = NoIp
  /\ stats.packets_total >= 2
  /\ stats.bytes_total >= 150
  /\ stats.packets_in + stats.packets_out = 0

(***************************************************************************)
(* Properties of the indicator engine.  A query returns Response(h, gw_ip, *)
(* gw_mac) of the state in which it ends; the properties speak about every *)
(* handler that is in a query and about every way its query can end.       *)
(***************************************************************************)
\* the MACs the pairs in ps give to ip
MacsOf(ps, ip) == {p[2] : p \in {q \in ps : q[1] = ip}}

\* the indicators of type t in a response
OfType(r, t) == SelectSeq(r.indicators, LAMBDA i : i.type = t)

\* the ways the query of handler h can end: the gateway it resolves, the
\* MAC it finds for it, the neighbor table it looks the MAC up in
EndCases(h) ==
  IF mq[h].at = "merged"
  THEN {[gw_ip |-> NoIp, gw_mac |-> NoMac, table |-> << >>]}
  ELSE IF mq[h].at = "gw"
  THEN {[gw_ip |-> mq[h].gw_ip,
         gw_mac |-> NeighborMacForIp(t, mq[h].gw_ip),
         table |-> t] : t \in NeighborTables}
  ELSE {}

\* C14: a summary query emits duplicate_ip_mapping iff, after its merge of
\* the neighbor table, some IP has at least 2 distinct MACs taken in from
\* neighbor tables and ARP frames since process start; the indicator lists
\* exactly those IPs, each with all of its MACs.
C14_DuplicateIpMapping ==
  /\ \A ip \in MitmIps : ip_to_macs[ip] = MacsOf(observed, ip)
  /\ \A h \in Handlers : \A e \in EndCases(h) :
       LET dup == OfType(Response(h, e.gw_ip, e.gw_mac),
                         "duplicate_ip_mapping")
           multi == {ip \in MitmIps :
                       Cardinality(MacsOf(mq[h].merged, ip)) >= 2}
       IN /\ Len(dup) <= 1
          /\ Len(dup) = 1 <=> multi # {}
          /\ Len(dup) = 1 =>
               /\ dup[1].severity = "medium"
               /\ dup[1].details =
                    {[ip |-> ip, macs |-> MacsOf(mq[h].merged, ip)] :
                       ip \in multi}

\* a query is about to end that merged a second MAC for an IP whose first
\* MAC an ARP frame had brought
C14_Witness ==
  \E h \in Handlers :
    /\ mq[h].at = "merged"
    /\ mq[h].conflicts = {[ip |-> GwIp, macs |-> {<<"aa">>, <<"bb">>}]}
    /\ arp_events # << >>
    /\ \A i \in 1..Len(arp_events) : ~IsConflict(arp_events[i])

\* the pair the ended queries left as baseline: what the last of them that
\* resolved both a gateway IP and its MAC resolved
RECURSIVE Baseline(_)
Baseline(o) ==
  IF o = << >> THEN [ip |-> NoIp, mac |-> NoMac]
  ELSE IF o[Len(o)].ip # NoIp /\ o[Len(o)].mac # NoMac THEN o[Len(o)]
  ELSE Baseline(SubSeq(o, 1, Len(o) - 1))

\* the gateway_mac_changed indicators of the response that ends h's query
\* in the way e
Changed(h, e) == OfType(Response(h, e.gw_ip, e.gw_mac), "gateway_mac_changed")

\* the gateway_mac_unknown indicators of that response
Unknown(h, e) == OfType(Response(h, e.gw_ip, e.gw_mac), "gateway_mac_unknown")

\* C15: a query emits gateway_mac_changed only if an earlier query stored a
\* baseline for the same gateway IP with a different, non-empty MAC; the
\* first query of the process never emits it, and no query emits it when
\* the gateway IP it resolves is not the stored one.
C15_ChangedNeedsBaseline ==
  \A h \in Handlers : \A e \in EndCases(h) :
    /\ Len(Changed(h, e)) <= 1
    /\ Len(Changed(h, e)) = 1 =>
         /\ obs # << >>
         /\ \E j \in 1..Len(obs) :
              /\ obs[j].ip = e.gw_ip
              /\ obs[j].mac # NoMac
              /\ obs[j].mac # e.gw_mac
              /\ obs[j].mac = Changed(h, e)[1].details.old_mac
         /\ Changed(h, e)[1].severity = "high"
         /\ Changed(h, e)[1].details.gateway_ip = e.gw_ip
         /\ Changed(h, e)[1].details.new_mac = e.gw_mac
    /\ Baseline(obs).ip # e.gw_ip => Changed(h, e) = << >>
    /\ gateway_ip_last # e.gw_ip => Changed(h, e) = << >>

\* a query is about to report a change of the gateway MAC, and another one
\* resolves a gateway other than the stored one, with another MAC
C15_Witness ==
  /\ Baseline(obs) = [ip |-> GwIp, mac |-> <<"aa">>]
  /\ \E h \in Handlers : \E e \in EndCases(h) :
       /\ e.gw_ip = GwIp
       /\ e.gw_mac = <<"bb">>
       /\ Len(Changed(h, e)) = 1
  /\ \E h \in Handlers : \E e \in EndCases(h) :
       /\ e.gw_ip = OtherIp
       /\ e.gw_mac = <<"bb">>
       /\ Changed(h, e) = << >>

\* C16 as stated: the stored pair is updated after the comparison, so that
\* gateway_mac_changed compares the resolved MAC against what the
\* immediately prior query observed: it is emitted iff that query resolved
\* the same gateway IP with another MAC, which is then the old_mac.
C16_Original ==
  \A h \in Handlers : \A e \in EndCases(h) :
    LET prior == IF obs = << >> THEN [ip |-> NoIp, mac |-> NoMac]
                 ELSE obs[Len(obs)]
    IN /\ Len(Changed(h, e)) = 1 <=>
            /\ e.gw_ip # NoIp
            /\ e.gw_mac # NoMac
            /\ prior.ip = e.gw_ip
            /\ prior.mac # NoMac
            /\ prior.mac # e.gw_mac
       /\ Len(Changed(h, e)) = 1 =>
            Changed(h, e)[1].details.old_mac = prior.mac

\* C16 amended: the stored pair is what the last ended query that resolved
\* both a gateway IP and its MAC resolved; a query compares against it
\* before it replaces it: it emits gateway_mac_changed iff it resolves a
\* MAC for the stored gateway IP that is not the stored MAC, with the
\* stored MAC as old_mac and the resolved one as new_mac.
C16_ComparesWithStoredBaseline ==
  /\ gateway_ip_last = Baseline(obs).ip
  /\ gateway_mac_last = Baseline(obs).mac
  /\ \A h \in Handlers : \A e \in EndCases(h) :
       /\ Len(Changed(h, e)) = 1 <=>
            /\ e.gw_ip # NoIp
            /\ e.gw_mac # NoMac
            /\ Baseline(obs).ip = e.gw_ip
            /\ Baseline(obs).mac # NoMac
            /\ Baseline(obs).mac # e.gw_mac
       /\ Len(Changed(h, e)) = 1 =>
            Changed(h, e)[1].details =
              [gateway_ip |-> e.gw_ip, old_mac |-> Baseline(obs).mac,
               new_mac |-> e.gw_mac]

\* a query is about to report the change from aa to bb although the query
\* before it found no MAC for the gateway, and the change from bb back to
\* aa, reported by an earlier query, is not reported again
C16_Witness ==
  /\ Len(obs) = 2
  /\ obs[1] = [ip |-> GwIp, mac |-> <<"aa">>]
  /\ obs[2] = [ip |-> GwIp, mac |-> NoMac]
  /\ \E h \in Handlers : \E e \in EndCases(h) :
       /\ e.gw_mac = <<"bb">>
       /\ Len(Changed(h, e)) = 1
  /\ \E h \in Handlers : \E e \in EndCases(h) :
       /\ e.gw_mac = <<"aa">>
       /\ Changed(h, e) = << >>

\* C17: a query emits gateway_mac_unknown, with severity info, iff it
\* resolves a gateway IP and the neighbor table holds no MAC for it; no
\* query emits both gateway_mac_unknown and gateway_mac_changed, and a query
\* that resolves no gateway IP emits neither.
C17_GatewayMacUnknown ==
  \A h \in Handlers : \A e \in EndCases(h) :
    LET found == \E i \in 1..Len(e.table) :
                   /\ e.table[i].ip = e.gw_ip
                   /\ NormalizeMac(e.table[i].mac) # NoMac
    IN /\ Len(Unknown(h, e)) <= 1
       /\ Len(Unknown(h, e)) = 1 <=> (e.gw_ip # NoIp /\ ~found)
       /\ Len(Unknown(h, e)) = 1 => Unknown(h, e)[1].severity = "info"
       /\ ~(Unknown(h, e) # << >> /\ Changed(h, e) # << >>)
       /\ e.gw_ip = NoIp => (Unknown(h, e) = << >> /\ Changed(h, e) = << >>)

\* C18: a query emits arp_conflict_events iff at least one of the newest
\* RecentEvents (25) recorded events has kind ip_conflict_suspected, and the
\* indicator then embeds up to EmbeddedEvents (10) of those
\* ip_conflict_suspected events: its details hold at least one conflict
\* event and at most EmbeddedEvents entries.
C18_ConflictEventsEmbedded ==
  \A h \in Handlers : \A e \in EndCases(h) :
    LET ind == OfType(Response(h, e.gw_ip, e.gw_mac), "arp_conflict_events")
        newest == FirstN(arp_events, RecentEvents)
    IN /\ Len(ind) <= 1
       /\ Len(ind) = 1 <=> \E i \in 1..Len(newest) : IsConflict(newest[i])
       /\ Len(ind) = 1 =>
            /\ Len(ind[1].details) >= 1
            /\ Len(ind[1].details) <= EmbeddedEvents
            /\ \E i \in 1..Len(ind[1].details) : IsConflict(ind[1].details[i])

\* C19: for every ARP frame with non-empty source IP and source MAC the
\* callback records an ip_conflict_suspected event iff the IP already has a
\* recorded MAC and the MAC of the frame is not among them; the event is
\* put at the head of the log with the MACs known before the frame, a
\* non-empty set without new_mac, and then the MAC is added.  So the first
\* MAC of an IP records no event, the second records one, and a query that
\* merges afterwards lists the IP with both MACs.
C19_ConflictEventOnNewMac ==
  [][/\ \A s \in ArpSnifferIds : \A pkt \in ArpFrames :
          (/\ ArpCallback(s, pkt)
           /\ pkt.arp /\ pkt.ok
           /\ Strip(pkt.psrc) # NoIp
           /\ NormalizeMac(pkt.hwsrc) # NoMac)
          => LET ip == Strip(pkt.psrc)
                 mac == NormalizeMac(pkt.hwsrc)
                 known == MacsOf(observed, ip)
                 recorded == arp_events' # arp_events
             IN /\ recorded <=> (known # {} /\ mac \notin known)
                /\ recorded =>
                     /\ Head(arp_events') =
                          ArpEvent("ip_conflict_suspected", ip, mac, known)
                     /\ Tail(arp_events') =
                          FirstN(arp_events, ArpEventsMax - 1)
                /\ ip_to_macs'[ip] = known \cup {mac}
                /\ \A other \in MitmIps \ {ip} :
                     ip_to_macs'[other] = ip_to_macs[other]
     /\ \A i \in 1..Len(arp_events') :
          IsConflict(arp_events'[i]) =>
            /\ arp_events'[i].known_macs # {}
            /\ arp_events'[i].new_mac \notin arp_events'[i].known_macs
     /\ \A h \in Handlers : \A ip \in MitmIps :
          (mq'[h].at # "idle" /\ Cardinality(MacsOf(mq'[h].merged, ip)) >= 2)
          => [ip |-> ip, macs |-> MacsOf(mq'[h].merged, ip)]
               \in mq'[h].conflicts]_mitmVars

\* two frames brought two MACs for one IP, which recorded one event, and a
\* query that began afterwards, with an empty neighbor table, lists the IP
\* with both MACs
C19_Witness ==
  /\ observed = {<<GwIp, <<"aa">>>>, <<GwIp, <<"bb">>>>}
  /\ Len(SelectSeq(arp_events, IsConflict)) = 1
  /\ \E i \in 1..Len(arp_events) :
       arp_events[i] = ArpEvent("ip_conflict_suspected", GwIp, <<"bb">>,
                                {<<"aa">>})
  /\ \E h \in Handlers :
       /\ mq[h].at = "merged"
       /\ mq[h].conflicts = {[ip |-> GwIp, macs |-> {<<"aa">>, <<"bb">>}]}

(***************************************************************************)
(* Properties of the discovery job                                         *)
(***************************************************************************)
\* C20: at most one discovery job is running at any time, whatever the
\* interleaving of start requests with the steps of the background job: no
\* two sweeps that have begun and not finished exist together.
C20_AtMostOneDiscoveryJob == Cardinality(Sweeping) <= 1

\* the modelled networks and addresses inside 10.0.0.0/8, 172.16.0.0/12 or
\* 192.168.0.0/16
Rfc1918Cidrs == { <<"192.168.1.0/30">>, <<"10.0.0.0/27">> }

Rfc1918Ips ==
  { <<TenHosts[i]>> : i \in 1..Len(TenHosts) }
    \cup { <<"192.168.1.1">>, <<"192.168.1.2">> }

\* C21: a start request for a network that is not an RFC1918 private range
\* spawns no job, and no ping is ever sent to an address outside the RFC1918
\* ranges.
C21_OnlyRfc1918 ==
  /\ \A j \in JobIds :
       job[j].at \notin {"none", "done"} => job[j].cidr \in Rfc1918Cidrs
  /\ \A ip \in pinged : ip \in Rfc1918Ips

\* C22: every discovery job that begins ends, with running false and
\* finished_at set at the moment it ends, whether it ends normally or by an
\* exception out of a ping or out of the neighbor read; and the job record
\* never stays running forever.
C22_JobTerminates ==
  /\ \A j \in JobIds :
       (job[j].at \in {"spawned", "sweep", "emit"})
         ~> (job[j].at = "done" /\ ~discover_job.running
               /\ discover_job.finished)
  /\ discover_job.running ~> ~discover_job.running

\* a single job has ended after one ping of a network of two hosts: by an
\* exception out of that ping
C22_Witness ==
  /\ job[1].at = "done"
  /\ job[2].at = "none"
  /\ pinged = { <<"192.168.1.1">> }
  /\ discover_results = << >>
  /\ ~discover_job.running
  /\ discover_job.finished

\* C23: the max_hosts of every job lies in 16..512 whatever the request
\* asked for; a job sends a ping only while it has sent fewer than max_hosts,
\* each ping goes to the next host address of the network and counts as
\* one, so a job never sends more than max_hosts pings.
C23_BoundedSweep ==
  [][ /\ \A j \in JobIds :
           job'[j].at \notin {"none", "done"} =>
             /\ job'[j].max_hosts \in 16..512
             /\ job'[j].count <= job'[j].max_hosts
             /\ job'[j].count = job'[j].pos
      /\ \A j \in JobIds, raised \in BOOLEAN :
           RunDiscoveryPing(j, raised) =>
             /\ job[j].count < job[j].max_hosts
             /\ pinged' = pinged \cup {HostsOf(j)[job[j].pos + 1].ip}
             /\ ~raised => /\ job'[j].count = job[j].count + 1
                           /\ job'[j].pos = job[j].pos + 1
    ]_discVars

\* a sweep of the network of thirty hosts has stopped after max_hosts pings
C23_Witness ==
  \E j \in JobIds :
    /\ job[j].at = "emit"
    /\ job[j].cidr = <<"10.0.0.0/27">>
    /\ job[j].count = job[j].max_hosts
    /\ job[j].pos < Len(HostsOf(j))
    /\ <<TenHosts[16]>> \in pinged
    /\ <<TenHosts[17]>> \notin pinged

(***************************************************************************)
(* Properties of the router leases and the merged devices                  *)
(***************************************************************************)
\* the texts of the import requests that were accepted (at least one row)
Accepted ==
  SelectSeq(imports, LAMBDA t : ParseRouterLeasesText(t) # << >>)

\* C24: the stored leases are at every moment exactly the rows parsed from
\* the text of the last accepted import, none of an earlier import among
\* them, and both readers answer from that one set.
C24_ImportReplaces ==
  LET last == IF Accepted = << >> THEN << >>
              ELSE ParseRouterLeasesText(Accepted[Len(Accepted)])
  IN /\ router_leases = last
     /\ LeasesResponse.leases = last
     /\ \A neigh \in MergeNeighTables :
          /\ MergedResponse(neigh).lease_count = Len(last)
          /\ MergedResponse(neigh).devices = MergeDevices(neigh, last)

\* file A was imported, then file B, and a reader is waiting meanwhile
C24_Witness ==
  /\ imports = <<TextA, TextB>>
  /\ router_leases = ParseRouterLeasesText(TextB)
  /\ \E h \in MergeReaders : lq[h] = "neigh"

\* the non-empty stripped addresses of the rows of a table
IpsOf(rows) == {Strip(rows[i].ip) : i \in 1..Len(rows)} \ {NoIp}

\* the non-blank normalized MACs a table has for an address
MacsFor(rows, ip) ==
  {NormalizeMac(rows[i].mac) : i \in {k \in 1..Len(rows) : Strip(rows[k].ip) = ip}}
    \ {NoMac}

\* the non-blank hostnames the leases have for an address
NamesFor(leases, ip) ==
  {leases[i].hostname : i \in {k \in 1..Len(leases) : Strip(leases[k].ip) = ip}}
    \ {NoName}

\* the sources of the leases of an address
SourcesFor(leases, ip) ==
  {leases[i].source : i \in {k \in 1..Len(leases) : Strip(leases[k].ip) = ip}}

\* C25: the merged devices are the outer join by IP of the neighbor table
\* and the stored leases: each non-empty IP of either input has exactly one
\* row; a MAC or hostname the neighbor table leaves blank is filled from a
\* lease that has it; a lease MAC never stands where the neighbor table
\* has a non-blank MAC for the IP; sources names every contributing source.
C25_OuterJoin ==
  \A neigh \in MergeNeighTables :
    LET md == MergeDevices(neigh, router_leases)
        src(r) == {r.sources[i] : i \in 1..Len(r.sources)}
    IN /\ {md[i].ip : i \in 1..Len(md)} = IpsOf(neigh) \cup IpsOf(router_leases)
       /\ Len(md) = Cardinality(IpsOf(neigh) \cup IpsOf(router_leases))
       /\ \A i \in 1..Len(md) :
            LET r == md[i]
                nm == MacsFor(neigh, r.ip)
                lm == MacsFor(router_leases, r.ip)
            IN /\ (nm = {} /\ lm # {}) => r.mac \in lm
               /\ NamesFor(router_leases, r.ip) # {}
                    => r.hostname \in NamesFor(router_leases, r.ip)
               /\ nm # {} => r.mac \notin (lm \ nm)
               /\ ("neighbor" \in src(r)) = (r.ip \in IpsOf(neigh))
               /\ SourcesFor(router_leases, r.ip) \subseteq src(r)

(***************************************************************************)
(* Properties of the capture tool                                          *)
(***************************************************************************)
\* C26: a start request without the capture binary on the path is answered
\* with an error, and a process or a registry entry is only ever created by
\* a request that is past that check; a request with a non-empty interface
\* name that a non-empty enumeration does not have is answered with an
\* error, creates no process and leaves the registry as it is; with an
\* empty enumeration the start goes on with any name, and the process it
\* creates is registered with that name.
C26_StartRejections ==
  [][ /\ ~CaptureStartBeginResponse(FALSE).ok
      /\ (tshark_processes' # tshark_processes
            \/ \E p \in Pids : procState[p] = "none" /\ procState'[p] # "none")
           => \E h \in CaptureStarters :
                /\ ch[h].at = "interfaces"
                /\ ch'[h].at = "idle"
                /\ \E e \in tshark_processes' \ tshark_processes :
                     e.interface = ch[h].iface
      /\ \A h \in CaptureStarters :
           ch[h].at = "interfaces" =>
             \A interfaces \in InterfaceSets, t \in Ticks, popen_ok \in BOOLEAN :
               CaptureStartEnd(h, interfaces, t, popen_ok) =>
                 LET known == ch[h].iface = NoIface \/ ch[h].iface \in interfaces
                 IN /\ (interfaces # {} /\ ~known) =>
                         /\ ~CaptureStartResponse(h, interfaces, t, popen_ok).ok
                         /\ UNCHANGED <<tshark_processes, procState>>
                    /\ ((interfaces = {} \/ known) /\ popen_ok) =>
                         /\ CaptureStartResponse(h, interfaces, t, popen_ok).ok
                         /\ \E e \in tshark_processes' :
                              /\ e.interface = ch[h].iface
                              /\ procState[e.pid] = "none"
                              /\ procState'[e.pid] = "alive"
    ]_capVars

\* a start with a name no enumeration has went through: the enumeration was
\* empty
C26_Witness ==
  \E e \in tshark_processes : e.interface = <<"eth0">>

\* the capture ids of the registry
RegistryIds(reg) == {e.id : e \in reg}

\* C27: stop answers an error exactly for an id the registry does not have;
\* it can always be taken and leaves every process in the state it is in
\* (it does not wait for an exit); it signals only live processes
\* registered under the id; a terminate() that raises changes nothing; a
\* second stop of the same id changes nothing more; and no step of any
\* operation takes an id out of the registry or makes the registry smaller.
C27_StopAndRegistry ==
  /\ [](\A capture_id \in CaptureIdInputs :
          /\ CaptureStopResponse(capture_id).ok
               = (Strip(capture_id) \in RegistryIds(tshark_processes))
          /\ \A raised \in BOOLEAN : ENABLED CaptureStop(capture_id, raised))
  /\ [][ /\ signalled' # signalled =>
             \A capture_id \in CaptureIdInputs, raised \in BOOLEAN :
               CaptureStop(capture_id, raised) =>
                 /\ procState' = procState
                 /\ ~raised
                 /\ signalled' \ signalled \subseteq StopTargets(capture_id)
                 /\ StopTargets(capture_id)' \subseteq signalled'
         /\ RegistryIds(tshark_processes)
              \subseteq RegistryIds(tshark_processes')
         /\ Cardinality(tshark_processes') >= Cardinality(tshark_processes)
       ]_capVars

\* a stop has signalled a registered process that is still alive, and the
\* registry holds a process that has exited
C27_Witness ==
  /\ \E e \in tshark_processes :
       e.pid \in signalled /\ procState[e.pid] = "alive"
  /\ \E e \in tshark_processes : procState[e.pid] = "exited"

(***************************************************************************)
(* Properties of the status and summary queries                            *)
(***************************************************************************)
\* the keys of the dict get_status returns and of its "stats" entry
StatusKeys ==
  {"running", "filter_ip", "iface", "buffer_len", "last_id", "stats"}

StatsKeys == DOMAIN ZeroStats

\* the "type" values of the indicators of a summary
IndicatorTypes ==
  {"duplicate_ip_mapping", "gateway_mac_unknown", "gateway_mac_changed",
   "arp_conflict_events"}

\* get_status returns a dict with all its keys, a flag, two non-negative
\* numbers and non-negative counters
StatusWellFormed ==
  /\ DOMAIN GetStatus = StatusKeys
  /\ GetStatus.running \in BOOLEAN
  /\ GetStatus.buffer_len \in 0..MaxPackets
  /\ GetStatus.last_id \in Nat
  /\ DOMAIN GetStatus.stats = StatsKeys
  /\ \A k \in StatsKeys : GetStatus.stats[k] \in Nat

\* get_packets returns a list of rows of the buffer, for every argument
PacketsWellFormed ==
  \A since_id \in SinceInputs, limit \in LimitInputs :
    LET rows == GetPackets(packets, since_id, limit)
    IN /\ DOMAIN rows = 1..Len(rows)
       /\ Len(rows) <= Len(packets)
       /\ \A i \in 1..Len(rows) :
            /\ rows[i] \in Range(packets)
            /\ rows[i].id \in Nat

\* the summary a handler returns, however its query ends, has a flag, a
\* list of indicators of the known types and at most RecentEvents events
SummaryWellFormed ==
  \A h \in Handlers : \A e \in EndCases(h) :
    LET r == Response(h, e.gw_ip, e.gw_mac)
    IN /\ r.arp_monitor_running \in BOOLEAN
       /\ DOMAIN r.indicators = 1..Len(r.indicators)
       /\ \A i \in 1..Len(r.indicators) :
            r.indicators[i].type \in IndicatorTypes
       /\ Len(r.recent_events) <= RecentEvents
       /\ (r.gateway_ip = NoIp) => (r.gateway_mac = NoMac)

\* the discovery status is the job record with its flag, the discovery
\* results are a list of rows that name an address
DiscoveryWellFormed ==
  /\ {"running", "started", "finished"} \subseteq DOMAIN discover_job
  /\ discover_job.running \in BOOLEAN
  /\ DOMAIN discover_results = 1..Len(discover_results)
  /\ \A i \in 1..Len(discover_results) :
       Strip(discover_results[i].ip) # NoIp

Failures == {"exit1", "timeout", "missing"}

\* C29: every command handed to subprocess.run (ping, traceroute, the
\* neighbor-table and routing-table reads) carries a timeout, so that no
\* handler waits for a command that hangs without a timeout running, and a
\* non-zero exit, a timeout and a missing binary reach the caller as an
\* exit code with the captured output, never as an exception
C29_TimeoutAndStructured ==
  /\ \A i \in invoked : i.timeout > 0
  /\ \A h \in ProxyHandlers : px[h].at = "hung" => ENABLED ProcTimeout(h)
  /\ \A r \in replies : r.outcome \in Failures => ~r.raised

\* the requests that carry a host
HostOps == {"ping", "traceroute"}

\* a host that is empty, starts with "-", or holds a blank or a shell
\* metacharacter
BadHost(host) ==
  \/ host = NoHost
  \/ host[1] = DASH
  \/ \E i \in 1..Len(host) : host[i] \in {SP, SEMI}

\* C30: a ping or traceroute request whose host (surrounding blanks aside)
\* is empty, holds a blank or a shell metacharacter, or starts with "-" is
\* answered with a 4xx status and starts no command; every command of a
\* ping or traceroute request is started with a host that is none of these
C30_OnlyValidatedHosts ==
  /\ \A i \in invoked : i.op \in HostOps => ~BadHost(i.host)
  /\ \A h \in ProxyHandlers :
       (px[h].at # "idle" /\ px[h].op \in HostOps) => ~BadHost(px[h].host)
  /\ \A r \in replies :
       (r.op \in HostOps /\ BadHost(Strip(r.raw)))
         => (r.outcome = "rejected" /\ r.status \in 400..499)

(***************************************************************************)
(* Further properties of the ARP monitor                                   *)
(***************************************************************************)
\* a frame the callback takes in: it is ARP, its fields can be read, and
\* its source IP and source MAC are not blank
GoodFrame(pkt) ==
  /\ pkt.arp
  /\ pkt.ok
  /\ Strip(pkt.psrc) # NoIp
  /\ NormalizeMac(pkt.hwsrc) # NoMac

\* C31: the ARP callback never raises and never ends the subscription.  A
\* step that changes ip_to_macs or the event log while no query moves and
\* the monitor is neither started nor stopped is the taking in of a frame
\* that is ARP, parses and has a source IP and a source MAC: every other
\* frame leaves both unchanged.  The state of a sniffer changes only with
\* the handle (a start or a stop), never by a frame, and a live sniffer
\* can be handed every frame, the good ones after the bad ones included.
C31_CallbackNeverRaises ==
  /\ [](\A s \in ArpSnifferIds : arpState[s] = "live" =>
         \A pkt \in ArpFrames : ENABLED ArpCallback(s, pkt))
  /\ [][/\ (arpState' # arpState) => (arp_sniffer' # arp_sniffer)
        /\ (/\ mq' = mq
            /\ arp_sniffer' = arp_sniffer
            /\ arpState' = arpState
            /\ <<ip_to_macs, arp_events>>' # <<ip_to_macs, arp_events>>)
           => \E pkt \in ArpFrames :
                /\ GoodFrame(pkt)
                /\ ip_to_macs' = Observe(ip_to_macs, arp_events,
                                          Strip(pkt.psrc),
                                          NormalizeMac(pkt.hwsrc)).map
                /\ arp_events' = Observe(ip_to_macs, arp_events,
                                          Strip(pkt.psrc),
                                          NormalizeMac(pkt.hwsrc)).log]_mitmVars

\* the sniffer that was started first is still live after frames that it
\* could have dropped, and it has taken in two MACs for one IP
C31_Witness ==
  /\ arp_sniffer = 1
  /\ arpState[1] = "live"
  /\ observed = {<<GwIp, <<"aa">>>>, <<GwIp, <<"bb">>>>}
  /\ \E pkt \in ArpFrames : ~GoodFrame(pkt) /\ ENABLED ArpCallback(1, pkt)
  /\ \A h \in Handlers : mq[h].at = "idle"

\* the monitor_started and monitor_stopped events of a log, newest first
MonitorEvents(log) ==
  SelectSeq(log, LAMBDA e : e.kind \in {"monitor_started", "monitor_stopped"})

\* C37: at most one ARP sniffer is live, and in the event log the
\* monitor_started and monitor_stopped events alternate: no two of the
\* same kind follow each other
C37_OneArpSniffer ==
  /\ Cardinality({s \in ArpSnifferIds : arpState[s] = "live"}) <= 1
  /\ \A i \in 1..(Len(MonitorEvents(arp_events)) - 1) :
       MonitorEvents(arp_events)[i].kind
         # MonitorEvents(arp_events)[i + 1].kind

(***************************************************************************)
(* Further properties of CaptureState                                      *)
(***************************************************************************)
\* C32: while get_status reports running = FALSE, which it does from the
\* locked block of stop() on, no step other than an API call (the next
\* start() among them) appends a row, assigns an id or changes a counter
C32_StopEndsCapture ==
  [][(~running /\ ncalls' = ncalls)
       => UNCHANGED <<packets, stats, next_id>>]_vars

\* a call or a callback is under way
LockInFlight ==
  \/ \E c \in Callers : req[c].at # "idle"
  \/ \E s \in SnifferIds : snf[s] # "idle"

\* C33: CaptureState is deadlock-free.  Whenever a call or a callback is
\* under way one of them can take its next step, in every state, so no
\* thread waits for ever; the thread that holds the lock is inside a locked
\* block, which it leaves without waiting; no thread asks for the lock
\* while it holds it; and stop() does not hold the lock while it stops and
\* joins the sniffer thread.
C33_DeadlockFree ==
  /\ LockInFlight => ENABLED LockProgress
  /\ \A c \in Callers : (lock = Req(c)) <=> (req[c].at = "locked")
  /\ \A s \in SnifferIds :
       (lock = Snf(s)) <=> (snf[s] \in {"ok_locked", "append_locked"})
  /\ \A c \in Callers : req[c].at \in {"acquire", "stop", "join"}
                            => lock # Req(c)
  /\ \A s \in SnifferIds : snf[s] \in {"ok_acquire", "append_acquire"}
                              => lock # Snf(s)

\* stop() joins the sniffer thread, which waits in _on_packet for the lock
\* that the other request thread holds
C33_Witness ==
  /\ req[1].at = "join"
  /\ snf[lk_target[1]] = "append_acquire"
  /\ lock = Req(2)

\* C35: running is true exactly when a sniffer handle is held, in every
\* state; and a fresh start whose sniffer fails to start (a sniffer is
\* constructed and running stays false) leaves the handle, the counters,
\* filter_ip and iface as they were before the call
C35_FailedStartLeavesState ==
  [][/\ running' <=> sniffer' # 0
     /\ (NumCreated' # NumCreated /\ ~running')
          => UNCHANGED <<sniffer, stats, filter_ip, iface>>]_vars

\* C38: packets_total is the number of rows appended since the latest
\* fresh start and bytes_total the sum of their lengths; the last_id of
\* get_status is next_id - 1 and not below buffer_len; the ids in the
\* buffer are next_id - buffer_len .. next_id - 1 in this order
C38_CountersAndIds ==
  /\ stats.packets_total = Len(session)
  /\ stats.bytes_total = SumLengths(session)
  /\ GetStatus.last_id = next_id - 1
  /\ GetStatus.last_id >= GetStatus.buffer_len
  /\ IdsOf(packets) =
       [i \in 1..Len(packets) |-> next_id - Len(packets) + i - 1]

\* rows of an earlier session are still buffered, one row was evicted, and
\* the session begun by a second fresh start has counted rows
C38_Witness ==
  /\ NumCreated = 2
  /\ Len(session) >= 1
  /\ Len(issued) > Len(session)
  /\ Len(packets) = MaxPackets
  /\ packets[1].id > 1
  /\ stats.bytes_total > 0

\* the tag the claim gives a protocol number
TagOf(n) ==
  IF n = 6 THEN "TCP" ELSE IF n = 17 THEN "UDP" ELSE IF n = 1 THEN "ICMP"
  ELSE "OTHER"

\* C39: a row that is appended carries the tag of the protocol number of
\* its frame: TCP, UDP, ICMP exactly for 6, 17, 1 and OTHER for every
\* other number.  Only a frame with an IP header gets past the first test
\* of the callback, and the buffer, next_id and the counters change only
\* when a callback that holds such a frame ends: a frame without an IP
\* header changes none of them.
C39_ProtocolTags ==
  /\ [](\A s \in SnifferIds : cb[s].at # "idle" => cb[s].pkt.ip)
  /\ [][/\ (<<packets, next_id, stats>>' # <<packets, next_id, stats>>
             /\ NumCreated' = NumCreated)
            => \E s \in SnifferIds :
                 /\ cb[s].at = "accepted"
                 /\ cb[s].pkt.ip
                 /\ cb'[s] = IdleCb
                 /\ packets'[Len(packets')].protocol = TagOf(cb[s].pkt.proto)
        /\ (nframes' # nframes) => UNCHANGED <<packets, next_id, stats>>
        /\ \A s \in SnifferIds : \A pkt \in ProtoFrames :
             OnPacketNotIp(s, pkt) => UNCHANGED cb]_vars

\* a row tagged ICMP and a row tagged OTHER are buffered, and a frame that
\* left no row was delivered besides
C39_Witness ==
  /\ {"ICMP", "OTHER"} \subseteq {packets[i].protocol : i \in 1..Len(packets)}
  /\ nframes > Len(issued)
  /\ \A s \in SnifferIds : cb[s].at = "idle"

(***************************************************************************)
(* Further properties of the capture tool and the lease import             *)
(***************************************************************************)
\* C34: every capture process that was created is registered, under an id
\* of its own: no start has taken the registry entry of an earlier one, so
\* each process can be reached by a stop of its capture id
C34_DistinctCaptureIds ==
  /\ \A p \in Pids :
       procState[p] # "none" => \E e \in tshark_processes : e.pid = p
  /\ Cardinality(RegistryIds(tshark_processes)) = NumProcs

\* C36: an import request whose text parses to no row is answered with an
\* error (400, ok false) and leaves the stored leases as they were
C36_EmptyImportRejected ==
  [][\A text \in LeaseTexts :
       (imports' = Append(imports, text) /\ ParseRouterLeasesText(text) = << >>)
         => /\ router_leases' = router_leases
            /\ ~ImportResponse(text).ok
            /\ ImportResponse(text).code = 400]_leaseVars

\* file A was imported, then a file with a header line and no row
C36_Witness ==
  /\ imports = <<TextA, TextHeaderOnly>>
  /\ ParseRouterLeasesText(TextHeaderOnly) = << >>
  /\ router_leases = ParseRouterLeasesText(TextA)
  /\ router_leases # << >>

(***************************************************************************)
(* Properties of mask_email                                                *)
(***************************************************************************)
\* a well-formed address: user part, "@", label, dot and the rest of the
\* domain, and nothing else
WellFormedAddress(addr) == EmailBody(addr, Len(addr))

\* the user part and the domain part of a well-formed address
UserPart(addr) ==
  SubSeq(addr, 1, (CHOOSE i \in 1..Len(addr) : addr[i] = AT) - 1)
DomainPart(addr) ==
  SubSeq(addr, (CHOOSE i \in 1..Len(addr) : addr[i] = AT) + 1, Len(addr))

\* the mask of a user part by its length
MaskByLength(u) ==
  CASE Len(u) = 1 -> <<STAR>>
    [] Len(u) \in {2, 3} -> <<u[1]>> \o [k \in 1..(Len(u) - 1) |-> STAR]
    [] OTHER -> <<u[1], STAR, STAR, STAR, u[Len(u)]>>

\* C40: mask_email returns (False, error) for every string that is not a
\* well-formed address; for a well-formed address it returns True, keeps
\* the domain part and masks the user part by its length: "*" for length
\* 1, the first character and length-1 "*" for length 2 or 3, first
\* character, "***" and last character for length 4 or more.
C40_MaskEmail ==
  masked # NoResult =>
    IF WellFormedAddress(email)
    THEN /\ masked.valid
         /\ masked.text = MaskByLength(UserPart(email)) \o <<AT>>
                            \o DomainPart(email)
    ELSE ~masked.valid

====
